---------------------------- MODULE Spec2Model ----------------------------
(***************************************************************************)
(* The restricted expression evaluator of @tokey/expression-evaluator:     *)
(* tokenize, Parser, evaluateNode and the public functions                 *)
(* compileExpression, safeEvaluateExpression and validateExpressionSyntax. *)
(*                                                                         *)
(* A source string is a sequence of one-character strings.  Indices are    *)
(* 1-based here and 0-based in the code; a reported position is i - 1.     *)
(***************************************************************************)
EXTENDS Integers, Sequences, FiniteSets, TLC

VARIABLES
    source,       \* the expression string handed to the public functions
    data,         \* the context object handed to the evaluator
    evaluator,    \* what compileExpression(source) returned or threw
    result,       \* what the call evaluator(data) returned or threw
    safeResult,   \* what safeEvaluateExpression(source, data) returned
    validation,   \* what validateExpressionSyntax(source) returned
    showWhen,     \* the list of expression strings handed to evaluateShowWhen
    shown,        \* what evaluateShowWhen(showWhen, data) returned or threw
    lexing,       \* the run of tokenize(source): its index and tokens, or its end
    envContent,   \* the .env text handed to parseEnvAST
    envAst,       \* the EnvAST the caller holds
    envCall,      \* the last call on envAst: its arguments and what it returned
    envIds        \* how many ids generateId has handed out

envVars == <<envContent, envAst, envCall, envIds>>

vars == <<source, data, evaluator, result, safeResult, validation, showWhen, shown,
          lexing, envVars>>

(***************************************************************************)
(* Characters                                                              *)
(***************************************************************************)
Lower == {"a","b","c","d","e","f","g","h","i","j","k","l","m",
          "n","o","p","q","r","s","t","u","v","w","x","y","z"}
Upper == {"A","B","C","D","E","F","G","H","I","J","K","L","M",
          "N","O","P","Q","R","S","T","U","V","W","X","Y","Z"}
Digits == {"0","1","2","3","4","5","6","7","8","9"}

\* /\s/
IsSpace(ch) == ch \in {" ", "\t", "\n", "\r"}
\* /\d/
IsDigit(ch) == ch \in Digits
\* /[\d.]/
IsNumberPart(ch) == ch \in Digits \cup {"."}
\* /[a-zA-Z_$]/
IsIdentStart(ch) == ch \in Lower \cup Upper \cup {"_", "$"}
\* /[a-zA-Z0-9_$]/
IsIdentPart(ch) == ch \in Lower \cup Upper \cup Digits \cup {"_", "$"}

\* expression[i], which is undefined (here "") outside the string
CharAt(e, i) == IF i >= 1 /\ i <= Len(e) THEN e[i] ELSE ""

(***************************************************************************)
(* Failures.  A message is the tuple of the template and the interpolated  *)
(* values of the code's template string.                                   *)
(***************************************************************************)
ExpressionSyntaxError(message) ==
    [name |-> "ExpressionSyntaxError", message |-> message]
ExpressionSecurityError(message) ==
    [name |-> "ExpressionSecurityError", message |-> message]
\* the engine's own failure on reading a property of undefined
TypeError(message) == [name |-> "TypeError", message |-> message]

Throw(error) == [ok |-> FALSE, error |-> error]

(***************************************************************************)
(* Lexer                                                                   *)
(***************************************************************************)
Token(type, value) == [type |-> type, value |-> value]

\* ScanString as it would be if a backslash were a character like any other
RECURSIVE ScanString_NoEscape(_, _, _, _)
ScanString_NoEscape(e, i, quote, str) ==
    IF i <= Len(e) /\ e[i] # quote
    THEN ScanString_NoEscape(e, i + 1, quote, Append(str, e[i]))
    ELSE [i |-> i + 1, str |-> str]


\* the inner loop of a string literal: returns the index after the closing
\* quote and the characters read
RECURSIVE ScanString(_, _, _, _)
ScanString(e, i, quote, str) ==
    IF i <= Len(e) /\ e[i] # quote
    THEN IF e[i] = "\\"
         THEN ScanString(e, i + 2, quote,
                         IF CharAt(e, i + 1) = "" THEN str
                         ELSE Append(str, e[i + 1]))
         ELSE ScanString(e, i + 1, quote, Append(str, e[i]))
    ELSE [i |-> i + 1, str |-> str]

\* the inner loop of a number: the run of digits and dots from i
RECURSIVE ScanNumber(_, _, _)
ScanNumber(e, i, num) ==
    IF i <= Len(e) /\ IsNumberPart(e[i])
    THEN ScanNumber(e, i + 1, Append(num, e[i]))
    ELSE [i |-> i, str |-> num]

\* the inner loop of an identifier
RECURSIVE ScanIdent(_, _, _)
ScanIdent(e, i, ident) ==
    IF i <= Len(e) /\ IsIdentPart(e[i])
    THEN ScanIdent(e, i + 1, Append(ident, e[i]))
    ELSE [i |-> i, str |-> ident]

KwTrue == <<"t","r","u","e">>
KwFalse == <<"f","a","l","s","e">>
KwNull == <<"n","u","l","l">>

IdentToken(ident) ==
    IF ident = KwTrue \/ ident = KwFalse THEN Token("boolean", ident)
    ELSE IF ident = KwNull THEN Token("null", ident)
    ELSE Token("identifier", ident)

\* OperatorAt as it would be with the one-character operators tried first
OperatorAt_ShortestFirst(e, i) ==
    LET c0 == CharAt(e, i)
        c1 == CharAt(e, i + 1)
        c2 == CharAt(e, i + 2)
    IN  IF c0 = "!" THEN <<"!">>
        ELSE IF c0 = ">" \/ c0 = "<" THEN <<c0>>
        ELSE IF c0 = "=" /\ c1 = "=" /\ c2 = "=" THEN <<"=","=","=">>
        ELSE IF c0 = "=" /\ c1 = "=" THEN <<"=","=">>
        ELSE IF c0 = "&" /\ c1 = "&" THEN <<"&","&">>
        ELSE IF c0 = "|" /\ c1 = "|" THEN <<"|","|">>
        ELSE <<>>


\* the operator chain of tokenize, in the order the code tries it;
\* <<>> when no operator starts at i
OperatorAt(e, i) ==
    LET c0 == CharAt(e, i)
        c1 == CharAt(e, i + 1)
        c2 == CharAt(e, i + 2)
    IN  IF c0 = "=" /\ c1 = "=" /\ c2 = "=" THEN <<"=","=","=">>
        ELSE IF c0 = "!" /\ c1 = "=" /\ c2 = "=" THEN <<"!","=","=">>
        ELSE IF c0 = "=" /\ c1 = "=" THEN <<"=","=">>
        ELSE IF c0 = "!" /\ c1 = "=" THEN <<"!","=">>
        ELSE IF c0 = ">" /\ c1 = "=" THEN <<">","=">>
        ELSE IF c0 = "<" /\ c1 = "=" THEN <<"<","=">>
        ELSE IF c0 = "&" /\ c1 = "&" THEN <<"&","&">>
        ELSE IF c0 = "|" /\ c1 = "|" THEN <<"|","|">>
        ELSE IF c0 = "!" THEN <<"!">>
        ELSE IF c0 = ">" \/ c0 = "<" THEN <<c0>>
        ELSE <<>>

PunctuationType(ch) ==
    CASE ch = "." -> "dot"
      [] ch = "(" -> "lparen"
      [] ch = ")" -> "rparen"
      [] ch = "[" -> "lbracket"
      [] ch = "]" -> "rbracket"
      [] ch = "," -> "comma"
      [] OTHER -> ""

\* EndOfInput as it would be without the end-of-input token
EndOfInput_NoEof(tokens) == [ok |-> TRUE, tokens |-> tokens]

\* after the loop: tokens.push({ type: 'eof', value: '' }); return tokens
EndOfInput(tokens) == [ok |-> TRUE, tokens |-> Append(tokens, Token("eof", <<>>))]

\* the while loop of tokenize between two iterations: the index and the
\* tokens pushed so far
Lexing(i, tokens) == [at |-> i, pushed |-> tokens]

\* one test of the loop condition at index i and the iteration that follows
\* it: the loop's next state, or the failure thrown, or, when the loop
\* ends, the tokens returned
TokenizeStep(e, i, tokens) ==
    IF i > Len(e) THEN EndOfInput(tokens)
    ELSE LET ch == e[i] IN
      IF IsSpace(ch) THEN Lexing(i + 1, tokens)
      ELSE IF ch = "'" \/ ch = "\"" THEN
          LET s == ScanString(e, i + 1, ch, <<>>)
          IN  Lexing(s.i, Append(tokens, Token("string", s.str)))
      ELSE IF IsDigit(ch) THEN
          LET s == ScanNumber(e, i, <<>>)
          IN  Lexing(s.i, Append(tokens, Token("number", s.str)))
      ELSE IF IsIdentStart(ch) THEN
          LET s == ScanIdent(e, i, <<>>)
          IN  Lexing(s.i, Append(tokens, IdentToken(s.str)))
      ELSE IF OperatorAt(e, i) # <<>> THEN
          LET op == OperatorAt(e, i)
          IN  Lexing(i + Len(op), Append(tokens, Token("operator", op)))
      ELSE IF PunctuationType(ch) # "" THEN
          Lexing(i + 1, Append(tokens, Token(PunctuationType(ch), <<ch>>)))
      ELSE Throw(ExpressionSyntaxError(<<"Unexpected character", ch, i - 1>>))

IsLexing(l) == "at" \in DOMAIN l

\* the loop of tokenize run to its end from index i
RECURSIVE TokenizeFrom(_, _, _)
TokenizeNext(e, l) == IF IsLexing(l) THEN TokenizeFrom(e, l.at, l.pushed) ELSE l

TokenizeFrom(e, i, tokens) == TokenizeNext(e, TokenizeStep(e, i, tokens))

tokenize(e) == TokenizeFrom(e, 1, <<>>)

(***************************************************************************)
(* AST nodes                                                               *)
(***************************************************************************)
Literal(value) == [type |-> "literal", value |-> value]
Identifier(name) == [type |-> "identifier", name |-> name]
MemberAccess(object, property) ==
    [type |-> "memberAccess", object |-> object, property |-> property]
ArrayLiteral(elements) == [type |-> "arrayLiteral", elements |-> elements]
MethodCall(object, method, args) ==
    [type |-> "methodCall", object |-> object, method |-> method, args |-> args]
BinaryOp(operator, left, right) ==
    [type |-> "binaryOp", operator |-> operator, left |-> left, right |-> right]
UnaryOp(operator, operand) ==
    [type |-> "unaryOp", operator |-> operator, operand |-> operand]
Parenthesized(inner) == [type |-> "parenthesized", expression |-> inner]

(***************************************************************************)
(* Values.  A number is NaN or a fraction num/den in lowest terms with     *)
(* den > 0; an object carries the reference that is its identity.          *)
(***************************************************************************)
Undefined == [t |-> "undefined"]
Null == [t |-> "null"]
Bool(b) == [t |-> "boolean", b |-> b]
Str(s) == [t |-> "string", s |-> s]
NaN == [t |-> "number", nan |-> TRUE]

RECURSIVE Gcd(_, _)
Gcd(a, b) == IF b = 0 THEN a ELSE Gcd(b, a % b)
Abs(n) == IF n < 0 THEN -n ELSE n
Frac(num, den) ==
    LET g == Gcd(Abs(num), den)
    IN  [t |-> "number", nan |-> FALSE, num |-> num \div g, den |-> den \div g]
Num(n) == Frac(n, 1)

\* a plain object: own enumerable properties props (a function on keys)
Obj(ref, props) == [t |-> "object", array |-> FALSE, ref |-> ref, props |-> props]
\* an array: its elements; its own keys are the indices and "length"
Arr(ref, elems) == [t |-> "object", array |-> TRUE, ref |-> ref, elems |-> elems]
\* a built-in function reached through a prototype
Builtin(name) == [t |-> "function", fname |-> name]

DigitValue(ch) ==
    CASE ch = "0" -> 0 [] ch = "1" -> 1 [] ch = "2" -> 2 [] ch = "3" -> 3
      [] ch = "4" -> 4 [] ch = "5" -> 5 [] ch = "6" -> 6 [] ch = "7" -> 7
      [] ch = "8" -> 8 [] ch = "9" -> 9

RECURSIVE Pow10(_)
Pow10(k) == IF k = 0 THEN 1 ELSE 10 * Pow10(k - 1)

\* the value of a run of digits read as a decimal integer
RECURSIVE DigitsValue(_, _)
DigitsValue(s, acc) ==
    IF s = <<>> THEN acc ELSE DigitsValue(Tail(s), 10 * acc + DigitValue(Head(s)))

DotCount(s) == Cardinality({i \in 1..Len(s) : s[i] = "."})
DotIndex(s) == CHOOSE i \in 1..Len(s) : s[i] = "."

\* Number(lexeme) for a lexeme of digits and dots that may be empty,
\* as the engine's StringToNumber reads it
DecimalValue(s) ==
    IF DotCount(s) > 1 THEN NaN
    ELSE IF DotCount(s) = 0
         THEN (IF s = <<>> THEN Num(0) ELSE Num(DigitsValue(s, 0)))
    ELSE LET d == DotIndex(s)
             ip == SubSeq(s, 1, d - 1)
             fp == SubSeq(s, d + 1, Len(s))
         IN  IF ip = <<>> /\ fp = <<>> THEN NaN
             ELSE Frac(DigitsValue(ip, 0) * Pow10(Len(fp)) + DigitsValue(fp, 0),
                       Pow10(Len(fp)))

(***************************************************************************)
(* Parser.  Each parse function takes the tokens and the read position and *)
(* returns the node with the position after it, or the failure thrown.     *)
(***************************************************************************)
Parsed(node, pos) == [ok |-> TRUE, node |-> node, pos |-> pos]

\* tokens[pos]; reading past the end gives undefined
peek(tokens, pos) ==
    IF pos <= Len(tokens) THEN tokens[pos] ELSE [type |-> "undefined", value |-> <<>>]

\* consume as it would be without the test of the token's type
consume_NoTypeTest(tokens, pos, expectedType) ==
    LET token == peek(tokens, pos)
    IN  IF token.type = "undefined"
        THEN Throw(TypeError(<<"Cannot read properties of undefined", "type">>))
        ELSE [ok |-> TRUE, token |-> token, pos |-> pos + 1]

\* consume(expectedType): the token and the next position, or the failure
consume(tokens, pos, expectedType) ==
    LET token == peek(tokens, pos)
    IN  IF token.type = "undefined"
        THEN Throw(TypeError(<<"Cannot read properties of undefined", "type">>))
        ELSE IF expectedType # "" /\ token.type # expectedType
        THEN Throw(ExpressionSyntaxError(
                 <<"Expected", expectedType, token.type, token.value>>))
        ELSE [ok |-> TRUE, token |-> token, pos |-> pos + 1]

IsOperator(token, value) == token.type = "operator" /\ token.value = value

compOps == {<<"=","=","=">>, <<"!","=","=">>, <<"=","=">>, <<"!","=">>,
            <<">">>, <<"<">>, <<">","=">>, <<"<","=">>}

(***************************************************************************)
(* The methods of Parser are mutually recursive: Parser(method, ...) is    *)
(* the body of the method named, and the definitions named after the       *)
(* methods call it.  A while loop is the method named with "Loop", which   *)
(* takes the left operand (or node) built so far.                          *)
(***************************************************************************)
RECURSIVE Parser(_, _, _, _)

parseOr(tokens, pos) == Parser("parseOr", tokens, pos, <<>>)
parseOrLoop(tokens, pos, left) == Parser("parseOrLoop", tokens, pos, left)
parseAnd(tokens, pos) == Parser("parseAnd", tokens, pos, <<>>)
parseAndLoop(tokens, pos, left) == Parser("parseAndLoop", tokens, pos, left)
\* parseComparison as it would be if parseAnd took its operands from
\* parseUnary: the comparison level is left out
parseComparison_AsUnary(tokens, pos) == Parser("parseUnary", tokens, pos, <<>>)
parseComparison(tokens, pos) == Parser("parseComparison", tokens, pos, <<>>)
GroupRight(op, left, right) ==
    IF ~right.ok THEN right ELSE Parsed(BinaryOp(op, left, right.node), right.pos)
\* parseComparisonLoop as it would be if the right operand of a comparison
\* were the rest of the chain: the operators group from the right
parseComparisonLoop_FromTheRight(tokens, pos, left) ==
    IF peek(tokens, pos).type = "operator" /\ peek(tokens, pos).value \in compOps
    THEN GroupRight(peek(tokens, pos).value, left,
                    Parser("parseComparison", tokens, pos + 1, <<>>))
    ELSE Parsed(left, pos)

parseComparisonLoop(tokens, pos, left) ==
    Parser("parseComparisonLoop", tokens, pos, left)
parseUnary(tokens, pos) == Parser("parseUnary", tokens, pos, <<>>)
parsePostfix(tokens, pos) == Parser("parsePostfix", tokens, pos, <<>>)
parsePostfixLoop(tokens, pos, node) == Parser("parsePostfixLoop", tokens, pos, node)
parsePrimary(tokens, pos) == Parser("parsePrimary", tokens, pos, <<>>)
\* the comma-separated list of parseOr results of an argument list or an
\* array literal, from the position after the opening token up to the
\* token of type close, which the caller consumes; after a comma there is
\* no test for close
parseList(tokens, pos, close) == Parser("parseList", tokens, pos, close)

Parser(method, tokens, pos, arg) ==
    CASE method = "parseOr" ->
             LET left == parseAnd(tokens, pos)
             IN  IF ~left.ok THEN left ELSE parseOrLoop(tokens, left.pos, left.node)
      [] method = "parseOrLoop" ->
             IF IsOperator(peek(tokens, pos), <<"|","|">>)
             THEN LET right == parseAnd(tokens, pos + 1)
                  IN  IF ~right.ok THEN right
                      ELSE parseOrLoop(tokens, right.pos,
                                       BinaryOp(<<"|","|">>, arg, right.node))
             ELSE Parsed(arg, pos)
      [] method = "parseAnd" ->
             LET left == parseComparison(tokens, pos)
             IN  IF ~left.ok THEN left ELSE parseAndLoop(tokens, left.pos, left.node)
      [] method = "parseAndLoop" ->
             IF IsOperator(peek(tokens, pos), <<"&","&">>)
             THEN LET right == parseComparison(tokens, pos + 1)
                  IN  IF ~right.ok THEN right
                      ELSE parseAndLoop(tokens, right.pos,
                                        BinaryOp(<<"&","&">>, arg, right.node))
             ELSE Parsed(arg, pos)
      [] method = "parseComparison" ->
             LET left == parseUnary(tokens, pos)
             IN  IF ~left.ok THEN left
                 ELSE parseComparisonLoop(tokens, left.pos, left.node)
      [] method = "parseComparisonLoop" ->
             IF peek(tokens, pos).type = "operator"
                    /\ peek(tokens, pos).value \in compOps
             THEN LET op == peek(tokens, pos).value
                      right == parseUnary(tokens, pos + 1)
                  IN  IF ~right.ok THEN right
                      ELSE parseComparisonLoop(tokens, right.pos,
                                               BinaryOp(op, arg, right.node))
             ELSE Parsed(arg, pos)
      [] method = "parseUnary" ->
             IF IsOperator(peek(tokens, pos), <<"!">>)
             THEN LET operand == parseUnary(tokens, pos + 1)
                  IN  IF ~operand.ok THEN operand
                      ELSE Parsed(UnaryOp(<<"!">>, operand.node), operand.pos)
             ELSE parsePostfix(tokens, pos)
      [] method = "parseList" ->
             IF peek(tokens, pos).type = arg
             THEN [ok |-> TRUE, nodes |-> <<>>, pos |-> pos]
             ELSE LET first == parseOr(tokens, pos)
                  IN  IF ~first.ok THEN first
                      ELSE IF peek(tokens, first.pos).type = "comma"
                      THEN LET rest == parseList(tokens, first.pos + 1, "")
                           IN  IF ~rest.ok THEN rest
                               ELSE [ok |-> TRUE,
                                     nodes |-> <<first.node>> \o rest.nodes,
                                     pos |-> rest.pos]
                      ELSE [ok |-> TRUE, nodes |-> <<first.node>>, pos |-> first.pos]
      [] method = "parsePostfix" ->
             LET node == parsePrimary(tokens, pos)
             IN  IF ~node.ok THEN node
                 ELSE parsePostfixLoop(tokens, node.pos, node.node)
      [] method = "parsePostfixLoop" ->
             IF peek(tokens, pos).type = "dot"
             THEN LET prop == consume(tokens, pos + 1, "identifier")
                  IN  IF ~prop.ok THEN prop
                      ELSE IF peek(tokens, prop.pos).type = "lparen"
                      THEN LET args == parseList(tokens, prop.pos + 1, "rparen")
                           IN  IF ~args.ok THEN args
                               ELSE LET rp == consume(tokens, args.pos, "rparen")
                                    IN  IF ~rp.ok THEN rp
                                        ELSE parsePostfixLoop(tokens, rp.pos,
                                                 MethodCall(arg, prop.token.value,
                                                            args.nodes))
                      ELSE parsePostfixLoop(tokens, prop.pos,
                                            MemberAccess(arg, prop.token.value))
             ELSE Parsed(arg, pos)
      [] method = "parsePrimary" ->
             LET token == peek(tokens, pos)
             IN  CASE token.type = "string" ->
                          Parsed(Literal(Str(token.value)), pos + 1)
                   [] token.type = "number" ->
                          Parsed(Literal(DecimalValue(token.value)), pos + 1)
                   [] token.type = "boolean" ->
                          Parsed(Literal(Bool(token.value = KwTrue)), pos + 1)
                   [] token.type = "null" -> Parsed(Literal(Null), pos + 1)
                   [] token.type = "identifier" ->
                          Parsed(Identifier(token.value), pos + 1)
                   [] token.type = "lbracket" ->
                          LET elements == parseList(tokens, pos + 1, "rbracket")
                          IN  IF ~elements.ok THEN elements
                              ELSE LET rb == consume(tokens, elements.pos, "rbracket")
                                   IN  IF ~rb.ok THEN rb
                                       ELSE Parsed(ArrayLiteral(elements.nodes),
                                                   rb.pos)
                   [] token.type = "lparen" ->
                          LET expr == parseOr(tokens, pos + 1)
                          IN  IF ~expr.ok THEN expr
                              ELSE LET rp == consume(tokens, expr.pos, "rparen")
                                   IN  IF ~rp.ok THEN rp
                                       ELSE Parsed(Parenthesized(expr.node), rp.pos)
                   [] token.type = "undefined" ->
                          Throw(TypeError(
                              <<"Cannot read properties of undefined", "type">>))
                   [] OTHER ->
                          Throw(ExpressionSyntaxError(
                              <<"Unexpected token", token.value>>))

\* parse as it would be without the test for the end of the input
parse_NoEofTest(tokens) == parseOr(tokens, 1)

\* Parser.parse
parse(tokens) ==
    LET node == parseOr(tokens, 1)
    IN  IF ~node.ok THEN node
        ELSE IF peek(tokens, node.pos).type # "eof"
        THEN Throw(ExpressionSyntaxError(
                 <<"Unexpected token", peek(tokens, node.pos).value>>))
        ELSE node

(***************************************************************************)
(* The engine's operations on values that the evaluator relies on.         *)
(* Strings are over printable ASCII; a numeric string is read in decimal   *)
(* notation with an optional sign (no exponent, radix prefix or Infinity). *)
(***************************************************************************)
\* the printable ASCII characters in code-unit order, from U+0020 (the grave
\* accent, which a TLA+ string cannot hold, is written "U+0060")
Ascii ==
    <<" ", "!", "\"", "#", "$", "%", "&", "'", "(", ")", "*", "+",
      ",", "-", ".", "/", "0", "1", "2", "3", "4", "5", "6", "7",
      "8", "9", ":", ";", "<", "=", ">", "?", "@", "A", "B", "C",
      "D", "E", "F", "G", "H", "I", "J", "K", "L", "M", "N", "O",
      "P", "Q", "R", "S", "T", "U", "V", "W", "X", "Y", "Z", "[",
      "\\", "]", "^", "_", "U+0060", "a", "b", "c", "d", "e", "f", "g",
      "h", "i", "j", "k", "l", "m", "n", "o", "p", "q", "r", "s",
      "t", "u", "v", "w", "x", "y", "z", "{", "|", "}", "~">>
CharCode(ch) == 31 + (CHOOSE i \in 1..Len(Ascii) : Ascii[i] = ch)

\* ToBoolean as it would be if NaN were truthy
ToBoolean_NaNTruthy(v) ==
    CASE v.t = "undefined" -> FALSE
      [] v.t = "null" -> FALSE
      [] v.t = "boolean" -> v.b
      [] v.t = "number" -> v.nan \/ v.num # 0
      [] v.t = "string" -> v.s # <<>>
      [] OTHER -> TRUE


\* ToBoolean
ToBoolean(v) ==
    CASE v.t = "undefined" -> FALSE
      [] v.t = "null" -> FALSE
      [] v.t = "boolean" -> v.b
      [] v.t = "number" -> ~v.nan /\ v.num # 0
      [] v.t = "string" -> v.s # <<>>
      [] OTHER -> TRUE

NumEq(x, y) == ~x.nan /\ ~y.nan /\ x.num = y.num /\ x.den = y.den
NumLt(x, y) == ~x.nan /\ ~y.nan /\ x.num * y.den < y.num * x.den

\* x === y
StrictEquals(x, y) ==
    /\ x.t = y.t
    /\ CASE x.t = "number" -> NumEq(x, y)
         [] x.t = "string" -> x.s = y.s
         [] x.t = "boolean" -> x.b = y.b
         [] x.t = "object" -> x.ref = y.ref
         [] x.t = "function" -> x.fname = y.fname
         [] OTHER -> TRUE

\* SameValueZero, the comparison of Array.prototype.includes
SameValueZero(x, y) ==
    \/ StrictEquals(x, y)
    \/ x.t = "number" /\ y.t = "number" /\ x.nan /\ y.nan

\* a string without its leading and trailing white space
RECURSIVE TrimLeft(_)
TrimLeft(s) == IF s # <<>> /\ IsSpace(Head(s)) THEN TrimLeft(Tail(s)) ELSE s
RECURSIVE TrimRight(_)
TrimRight(s) ==
    IF s # <<>> /\ IsSpace(s[Len(s)]) THEN TrimRight(SubSeq(s, 1, Len(s) - 1)) ELSE s

Negate(n) == IF n.nan THEN n ELSE Frac(-n.num, n.den)

\* StringToNumber
StringToNumber(str) ==
    LET s == TrimRight(TrimLeft(str))
        body == IF s # <<>> /\ Head(s) \in {"+", "-"} THEN Tail(s) ELSE s
    IN  IF s = <<>> THEN Num(0)
        ELSE IF body = <<>> \/ \E i \in 1..Len(body) : ~IsNumberPart(body[i]) THEN NaN
        ELSE IF Head(s) = "-" THEN Negate(DecimalValue(body))
        ELSE DecimalValue(body)

DigitChar(d) == <<"0","1","2","3","4","5","6","7","8","9">>[d + 1]

RECURSIVE NatToString(_)
NatToString(n) ==
    IF n < 10 THEN <<DigitChar(n)>>
    ELSE Append(NatToString(n \div 10), DigitChar(n % 10))

\* the digits of rem/den after the decimal point (den divides a power of 10)
RECURSIVE FractionDigits(_, _)
FractionDigits(rem, den) ==
    IF rem = 0 THEN <<>>
    ELSE <<DigitChar((10 * rem) \div den)>> \o FractionDigits((10 * rem) % den, den)

\* Number::toString for NaN and for a decimal fraction
NumberToString(n) ==
    IF n.nan THEN <<"N","a","N">>
    ELSE LET a == Abs(n.num)
             whole == NatToString(a \div n.den)
             frac == FractionDigits(a % n.den, n.den)
         IN  (IF n.num < 0 THEN <<"-">> ELSE <<>>) \o whole \o
             (IF frac = <<>> THEN <<>> ELSE <<".">> \o frac)

RECURSIVE ToStringValue(_), JoinElements(_)
\* Array.prototype.join(",") over the elements
JoinElements(elems) ==
    IF elems = <<>> THEN <<>>
    ELSE LET h == Head(elems)
             hs == IF h.t \in {"undefined", "null"} THEN <<>> ELSE ToStringValue(h)
         IN  IF Len(elems) = 1 THEN hs
             ELSE hs \o <<",">> \o JoinElements(Tail(elems))

\* ToString
ToStringValue(v) ==
    CASE v.t = "undefined" -> <<"u","n","d","e","f","i","n","e","d">>
      [] v.t = "null" -> KwNull
      [] v.t = "boolean" -> (IF v.b THEN KwTrue ELSE KwFalse)
      [] v.t = "number" -> NumberToString(v)
      [] v.t = "string" -> v.s
      [] v.t = "object" ->
             (IF v.array THEN JoinElements(v.elems)
              ELSE <<"[","o","b","j","e","c","t"," ","O","b","j","e","c","t","]">>)
      [] OTHER -> <<"f","u","n","c","t","i","o","n"," ","(",")"," ","{"," ","[","n","a","t","i","v","e"," ","c","o","d","e","]"," ","}">>

\* ToPrimitive: an object becomes its string
ToPrimitive(v) == IF v.t \in {"object", "function"} THEN Str(ToStringValue(v)) ELSE v

\* ToNumber
ToNumber(v) ==
    LET p == ToPrimitive(v)
    IN  CASE p.t = "undefined" -> NaN
          [] p.t = "null" -> Num(0)
          [] p.t = "boolean" -> (IF p.b THEN Num(1) ELSE Num(0))
          [] p.t = "number" -> p
          [] p.t = "string" -> StringToNumber(p.s)

\* LooseEquals as it would be without coercion
LooseEquals_Strict(x, y) == StrictEquals(x, y)

\* x == y (IsLooselyEqual)
RECURSIVE LooseEquals(_, _)
LooseEquals(x, y) ==
    IF x.t = y.t THEN StrictEquals(x, y)
    ELSE IF x.t \in {"undefined", "null"} /\ y.t \in {"undefined", "null"} THEN TRUE
    ELSE IF x.t \in {"undefined", "null"} \/ y.t \in {"undefined", "null"} THEN FALSE
    ELSE IF x.t = "number" /\ y.t = "string" THEN NumEq(x, StringToNumber(y.s))
    ELSE IF x.t = "string" /\ y.t = "number" THEN NumEq(StringToNumber(x.s), y)
    ELSE IF x.t = "boolean" THEN LooseEquals(ToNumber(x), y)
    ELSE IF y.t = "boolean" THEN LooseEquals(x, ToNumber(y))
    ELSE IF x.t \in {"number", "string"} /\ y.t \in {"object", "function"}
         THEN LooseEquals(x, ToPrimitive(y))
    ELSE IF x.t \in {"object", "function"} /\ y.t \in {"number", "string"}
         THEN LooseEquals(ToPrimitive(x), y)
    ELSE FALSE

\* the order of two strings by code units
RECURSIVE StringLt(_, _)
StringLt(a, b) ==
    IF b = <<>> THEN FALSE
    ELSE IF a = <<>> THEN TRUE
    ELSE IF Head(a) = Head(b) THEN StringLt(Tail(a), Tail(b))
    ELSE CharCode(Head(a)) < CharCode(Head(b))

\* IsLessThan(x, y): "true", "false" or "undefined" (an operand is NaN)
IsLessThan(x, y) ==
    LET px == ToPrimitive(x)
        py == ToPrimitive(y)
    IN  IF px.t = "string" /\ py.t = "string"
        THEN (IF StringLt(px.s, py.s) THEN "true" ELSE "false")
        ELSE LET nx == ToNumber(px)
                 ny == ToNumber(py)
             IN  IF nx.nan \/ ny.nan THEN "undefined"
                 ELSE IF NumLt(nx, ny) THEN "true" ELSE "false"

\* x < y, x > y, x <= y, x >= y
LessThan(x, y) == IsLessThan(x, y) = "true"
GreaterThan(x, y) == IsLessThan(y, x) = "true"
LessOrEqual(x, y) == IsLessThan(y, x) = "false"
GreaterOrEqual(x, y) == IsLessThan(x, y) = "false"

(***************************************************************************)
(* Property lookup.  Object.hasOwn sees the own properties only; a plain   *)
(* read obj[key] also walks the prototype chain.                           *)
(***************************************************************************)
KeyLength == <<"l","e","n","g","t","h">>
KeyIncludes == <<"i","n","c","l","u","d","e","s">>
ObjectPrototypeKeys ==
    {<<"c","o","n","s","t","r","u","c","t","o","r">>,
     <<"t","o","S","t","r","i","n","g">>,
     <<"v","a","l","u","e","O","f">>,
     <<"h","a","s","O","w","n","P","r","o","p","e","r","t","y">>,
     <<"_","_","p","r","o","t","o","_","_">>,
     <<"i","s","P","r","o","t","o","t","y","p","e","O","f">>,
     <<"t","o","L","o","c","a","l","e","S","t","r","i","n","g">>}
ArrayPrototypeKeys ==
    {<<"i","n","c","l","u","d","e","s">>,
     <<"i","n","d","e","x","O","f">>,
     <<"j","o","i","n">>,
     <<"m","a","p">>,
     <<"a","t">>,
     <<"c","o","n","c","a","t">>,
     <<"s","l","i","c","e">>}
StringPrototypeKeys ==
    {<<"i","n","c","l","u","d","e","s">>,
     <<"r","e","p","l","a","c","e">>,
     <<"i","n","d","e","x","O","f">>,
     <<"a","t">>,
     <<"c","o","n","c","a","t">>,
     <<"s","l","i","c","e">>}

\* the canonical index strings "0" .. "n-1"
IndexKeys(n) == {NatToString(i) : i \in 0..(n - 1)}
IndexOfKey(key, n) == CHOOSE i \in 0..(n - 1) : NatToString(i) = key

\* the own enumerable keys of an object (Object.keys)
OwnEnumerableKeys(obj) ==
    IF obj.array THEN IndexKeys(Len(obj.elems)) ELSE DOMAIN obj.props

\* Object.hasOwn(obj, key): enumerable or not
HasOwn(obj, key) ==
    IF obj.array THEN key = KeyLength \/ key \in IndexKeys(Len(obj.elems))
    ELSE key \in DOMAIN obj.props

\* obj[key] for an object
Get(obj, key) ==
    IF obj.array /\ key = KeyLength THEN Num(Len(obj.elems))
    ELSE IF obj.array /\ key \in IndexKeys(Len(obj.elems))
         THEN obj.elems[IndexOfKey(key, Len(obj.elems)) + 1]
    ELSE IF ~obj.array /\ key \in DOMAIN obj.props THEN obj.props[key]
    ELSE IF obj.array /\ key \in ArrayPrototypeKeys THEN Builtin(key)
    ELSE IF key \in ObjectPrototypeKeys THEN Builtin(key)
    ELSE Undefined

\* ArrayIncludes as it would be with the loose comparison of == on the
\* elements
ArrayIncludes_Loose(elems, x) == \E i \in 1..Len(elems) : LooseEquals(elems[i], x)

\* Array.prototype.includes
ArrayIncludes(elems, x) == \E i \in 1..Len(elems) : SameValueZero(elems[i], x)

(***************************************************************************)
(* Evaluator.  evaluateNode returns the value or the failure thrown, with  *)
(* the trace of what the call did: the nodes evaluated, in order (a node   *)
(* is named by its path from the root: 0 for object, left, operand and     *)
(* expression, 1 for right, k for the k-th element or argument) and the    *)
(* methods invoked on values.                                              *)
(***************************************************************************)
Returned(value, trace) == [ok |-> TRUE, value |-> value, trace |-> trace]
Thrown(error, trace) == [ok |-> FALSE, error |-> error, trace |-> trace]
Evaluated(path) == [ev |-> "evaluate", path |-> path]
Invoked(method, receiver) == [ev |-> "invoke", method |-> method, receiver |-> receiver]

\* node.args[0], which is undefined when the call has no argument
UndefinedNode == [type |-> "undefined"]
FirstArg(args) == IF Len(args) >= 1 THEN args[1] ELSE UndefinedNode

OpAnd == <<"&","&">>
OpOr == <<"|","|">>
OpNot == <<"!">>

\* the switch over the comparison operators on the two operand values
Compare(operator, left, right) ==
    CASE operator = <<"=","=","=">> -> [ok |-> TRUE, value |-> Bool(StrictEquals(left, right))]
      [] operator = <<"!","=","=">> -> [ok |-> TRUE, value |-> Bool(~StrictEquals(left, right))]
      [] operator = <<"=","=">> -> [ok |-> TRUE, value |-> Bool(LooseEquals(left, right))]
      [] operator = <<"!","=">> -> [ok |-> TRUE, value |-> Bool(~LooseEquals(left, right))]
      [] operator = <<">">> -> [ok |-> TRUE, value |-> Bool(GreaterThan(left, right))]
      [] operator = <<"<">> -> [ok |-> TRUE, value |-> Bool(LessThan(left, right))]
      [] operator = <<">","=">> -> [ok |-> TRUE, value |-> Bool(GreaterOrEqual(left, right))]
      [] operator = <<"<","=">> -> [ok |-> TRUE, value |-> Bool(LessOrEqual(left, right))]
      [] OTHER -> Throw(ExpressionSyntaxError(<<"Unknown operator", operator>>))

\* EvalIdentifier as it would be with a plain read context[node.name] in
\* place of the Object.hasOwn test
EvalIdentifier_PlainRead(node, context, trace) ==
    Returned(Get(context, node.name), trace)

\* case 'identifier'
EvalIdentifier(node, context, trace) ==
    IF ~HasOwn(context, node.name)
    THEN Thrown(ExpressionSecurityError(<<"Access to", node.name, "is not allowed">>),
                trace)
    ELSE Returned(Get(context, node.name), trace)

\* EvalMember as it would be without the test for null and non-objects:
\* Object.hasOwn throws on null and undefined and boxes a primitive, and a
\* boxed string has the own key length
EvalMember_NoObjectTest(node, obj, trace) ==
    IF obj.t \in {"null", "undefined"}
    THEN Thrown(TypeError(<<"Cannot convert undefined or null to object">>), trace)
    ELSE IF obj.t = "string" /\ node.property = KeyLength
    THEN Returned(Num(Len(obj.s)), trace)
    ELSE IF obj.t # "object" \/ ~HasOwn(obj, node.property)
    THEN Thrown(ExpressionSecurityError(
                    <<"Access to", node.property, "is not allowed">>), trace)
    ELSE Returned(Get(obj, node.property), trace)

\* case 'memberAccess', after the object is evaluated to obj
EvalMember(node, obj, trace) ==
    IF obj.t = "null" \/ obj.t # "object" THEN Returned(Undefined, trace)
    ELSE IF ~HasOwn(obj, node.property)
    THEN Thrown(ExpressionSecurityError(
                    <<"Access to", node.property, "is not allowed">>), trace)
    ELSE Returned(Get(obj, node.property), trace)

IsArray(v) == v.t = "object" /\ v.array

IsSubstring(a, b) == \E i \in 1..(Len(b) + 1) : SubSeq(b, i, i + Len(a) - 1) = a

\* EvalMethodCall as it would be without the Array.isArray test: includes
\* is called on whatever the receiver is
EvalMethodCall_NoArrayTest(node, obj, arg, trace) ==
    IF node.method = KeyIncludes
    THEN IF ~arg.ok THEN Thrown(arg.error, trace \o arg.trace)
         ELSE IF IsArray(obj)
         THEN Returned(Bool(ArrayIncludes(obj.elems, arg.value)),
                       trace \o arg.trace \o <<Invoked(KeyIncludes, obj)>>)
         ELSE IF obj.t = "string"
         THEN Returned(Bool(IsSubstring(ToStringValue(arg.value), obj.s)),
                       trace \o arg.trace \o <<Invoked(KeyIncludes, obj)>>)
         ELSE Thrown(TypeError(<<"obj.includes is not a function">>),
                     trace \o arg.trace)
    ELSE Thrown(ExpressionSecurityError(<<"Method", node.method, "is not allowed">>),
                trace)

\* case 'methodCall', after the object is evaluated to obj; arg is the
\* evaluation of node.args[0], made only where the code makes it
EvalMethodCall(node, obj, arg, trace) ==
    IF node.method = KeyIncludes
    THEN IF ~IsArray(obj)
         THEN Thrown(ExpressionSecurityError(
                         <<"'includes' can only be called on arrays">>), trace)
         ELSE IF ~arg.ok THEN Thrown(arg.error, trace \o arg.trace)
         ELSE Returned(Bool(ArrayIncludes(obj.elems, arg.value)),
                       trace \o arg.trace \o <<Invoked(KeyIncludes, obj)>>)
    ELSE Thrown(ExpressionSecurityError(<<"Method", node.method, "is not allowed">>),
                trace)

\* EvalAnd as it would be with the right operand evaluated before the test
EvalAnd_Eager(left, right, trace) ==
    IF ~right.ok THEN Thrown(right.error, trace \o right.trace)
    ELSE IF ToBoolean(left) THEN Returned(right.value, trace \o right.trace)
    ELSE Returned(left, trace \o right.trace)

\* EvalOr as it would be with the right operand evaluated before the test
EvalOr_Eager(left, right, trace) ==
    IF ~right.ok THEN Thrown(right.error, trace \o right.trace)
    ELSE IF ToBoolean(left) THEN Returned(left, trace \o right.trace)
    ELSE Returned(right.value, trace \o right.trace)

\* operator '&&', after the left operand is evaluated to left; right is the
\* evaluation of node.right, made only where the code makes it
EvalAnd(left, right, trace) ==
    IF ToBoolean(left)
    THEN (IF right.ok THEN Returned(right.value, trace \o right.trace)
          ELSE Thrown(right.error, trace \o right.trace))
    ELSE Returned(left, trace)

\* operator '||', likewise
EvalOr(left, right, trace) ==
    IF ToBoolean(left) THEN Returned(left, trace)
    ELSE IF right.ok THEN Returned(right.value, trace \o right.trace)
    ELSE Thrown(right.error, trace \o right.trace)

\* EvalComparison as it would be if the right operand were evaluated a
\* second time for the comparison
EvalComparison_RightTwice(operator, left, right, trace) ==
    IF ~right.ok THEN Thrown(right.error, trace \o right.trace)
    ELSE LET c == Compare(operator, left, right.value)
         IN  IF c.ok THEN Returned(c.value, trace \o right.trace \o right.trace)
             ELSE Thrown(c.error, trace \o right.trace \o right.trace)


\* the other binary operators: both operands are evaluated, then compared
EvalComparison(operator, left, right, trace) ==
    IF ~right.ok THEN Thrown(right.error, trace \o right.trace)
    ELSE LET c == Compare(operator, left, right.value)
         IN  IF c.ok THEN Returned(c.value, trace \o right.trace)
             ELSE Thrown(c.error, trace \o right.trace)

\* case 'unaryOp', after the operand is evaluated
EvalUnary(node, operand, trace) ==
    IF node.operator = OpNot THEN Returned(Bool(~ToBoolean(operand)), trace)
    ELSE Thrown(ExpressionSyntaxError(<<"Unknown unary operator", node.operator>>),
                trace)

RECURSIVE evaluateNode(_, _, _), evaluateElements(_, _, _, _)

\* evaluateElements as it would be if every element were evaluated before
\* a failure is raised
evaluateElements_AllBeforeFailure(elements, context, path, k) ==
    IF k > Len(elements) THEN [ok |-> TRUE, values |-> <<>>, trace |-> <<>>]
    ELSE LET el == evaluateNode(elements[k], context, Append(path, k))
             rest == evaluateElements(elements, context, path, k + 1)
         IN  IF ~el.ok THEN Thrown(el.error, el.trace \o rest.trace)
             ELSE IF ~rest.ok THEN Thrown(rest.error, el.trace \o rest.trace)
             ELSE [ok |-> TRUE, values |-> <<el.value>> \o rest.values,
                   trace |-> el.trace \o rest.trace]


\* node.elements.map((el) => evaluateNode(el, context)) from element k
evaluateElements(elements, context, path, k) ==
    IF k > Len(elements) THEN [ok |-> TRUE, values |-> <<>>, trace |-> <<>>]
    ELSE LET el == evaluateNode(elements[k], context, Append(path, k))
         IN  IF ~el.ok THEN el
             ELSE LET rest == evaluateElements(elements, context, path, k + 1)
                  IN  IF ~rest.ok THEN Thrown(rest.error, el.trace \o rest.trace)
                      ELSE [ok |-> TRUE, values |-> <<el.value>> \o rest.values,
                            trace |-> el.trace \o rest.trace]

evaluateNode(node, context, path) ==
    IF node = UndefinedNode
    THEN Thrown(TypeError(<<"Cannot read properties of undefined", "type">>), <<>>)
    ELSE LET enter == <<Evaluated(path)>> IN
    CASE node.type = "literal" -> Returned(node.value, enter)
      [] node.type = "identifier" -> EvalIdentifier(node, context, enter)
      [] node.type = "memberAccess" ->
             LET obj == evaluateNode(node.object, context, Append(path, 0))
             IN  IF ~obj.ok THEN Thrown(obj.error, enter \o obj.trace)
                 ELSE EvalMember(node, obj.value, enter \o obj.trace)
      [] node.type = "arrayLiteral" ->
             LET els == evaluateElements(node.elements, context, path, 1)
             IN  IF ~els.ok THEN Thrown(els.error, enter \o els.trace)
                 ELSE Returned(Arr(<<"literal", path>>, els.values), enter \o els.trace)
      [] node.type = "methodCall" ->
             LET obj == evaluateNode(node.object, context, Append(path, 0))
             IN  IF ~obj.ok THEN Thrown(obj.error, enter \o obj.trace)
                 ELSE EvalMethodCall(node, obj.value,
                          evaluateNode(FirstArg(node.args), context, Append(path, 1)),
                          enter \o obj.trace)
      [] node.type = "binaryOp" ->
             LET left == evaluateNode(node.left, context, Append(path, 0))
                 right == evaluateNode(node.right, context, Append(path, 1))
             IN  IF ~left.ok THEN Thrown(left.error, enter \o left.trace)
                 ELSE IF node.operator = OpAnd
                 THEN EvalAnd(left.value, right, enter \o left.trace)
                 ELSE IF node.operator = OpOr
                 THEN EvalOr(left.value, right, enter \o left.trace)
                 ELSE EvalComparison(node.operator, left.value, right,
                                     enter \o left.trace)
      [] node.type = "unaryOp" ->
             LET operand == evaluateNode(node.operand, context, Append(path, 0))
             IN  IF ~operand.ok THEN Thrown(operand.error, enter \o operand.trace)
                 ELSE EvalUnary(node, operand.value, enter \o operand.trace)
      [] node.type = "parenthesized" ->
             LET inner == evaluateNode(node.expression, context, Append(path, 0))
             IN  IF ~inner.ok THEN Thrown(inner.error, enter \o inner.trace)
                 ELSE Returned(inner.value, enter \o inner.trace)

(***************************************************************************)
(* Public API                                                              *)
(***************************************************************************)
\* what compileExpression does with what tokenize returned or threw
CompileTokens(tokens) ==
    IF ~tokens.ok THEN tokens
    ELSE LET ast == parse(tokens.tokens)
         IN  IF ~ast.ok THEN ast ELSE [ok |-> TRUE, ast |-> ast.node]

\* compileExpression: the closure over the AST, or the failure thrown
compileExpression(e) == CompileTokens(tokenize(e))

\* the closure compileExpression returns, applied to a context
Evaluate(ast, ctx) == evaluateNode(ast, ctx, <<>>)

\* safeEvaluateExpression as it would be if its catch clause caught the two
\* failures of this module only
safeEvaluateExpression_CatchesOwnFailures(e, ctx) ==
    LET compiled == compileExpression(e)
        own == {"ExpressionSyntaxError", "ExpressionSecurityError"}
    IN  IF ~compiled.ok
        THEN (IF compiled.error.name \in own THEN [ok |-> TRUE, value |-> Bool(FALSE)]
              ELSE Throw(compiled.error))
        ELSE LET r == Evaluate(compiled.ast, ctx)
             IN  IF r.ok THEN [ok |-> TRUE, value |-> r.value]
                 ELSE IF r.error.name \in own THEN [ok |-> TRUE, value |-> Bool(FALSE)]
                 ELSE Throw(r.error)

\* safeEvaluateExpression as it would be with compileExpression called
\* before the try block: only the failures of the evaluation are caught
safeEvaluateExpression_CompileOutsideTry(e, ctx) ==
    LET compiled == compileExpression(e)
    IN  IF ~compiled.ok THEN Throw(compiled.error)
        ELSE LET r == Evaluate(compiled.ast, ctx)
             IN  IF ~r.ok THEN [ok |-> TRUE, value |-> Bool(FALSE)]
                 ELSE [ok |-> TRUE, value |-> r.value]

\* safeEvaluateExpression: try { compile; evaluate } catch { return false }
safeEvaluateExpression(e, ctx) ==
    LET compiled == compileExpression(e)
    IN  IF ~compiled.ok THEN [ok |-> TRUE, value |-> Bool(FALSE)]
        ELSE LET r == Evaluate(compiled.ast, ctx)
             IN  IF ~r.ok THEN [ok |-> TRUE, value |-> Bool(FALSE)]
                 ELSE [ok |-> TRUE, value |-> r.value]

\* validateExpressionSyntax as it would be if it ran the lexer alone
validateExpressionSyntax_LexerOnly(e) ==
    LET tokens == tokenize(e)
    IN  IF ~tokens.ok
        THEN [ok |-> TRUE, isNull |-> FALSE, message |-> tokens.error.message]
        ELSE [ok |-> TRUE, isNull |-> TRUE]

\* validateExpressionSyntax: null, or the message of what was thrown
\* (every failure thrown here is an Error instance)
validateExpressionSyntax(e) ==
    LET tokens == tokenize(e)
    IN  IF ~tokens.ok
        THEN [ok |-> TRUE, isNull |-> FALSE, message |-> tokens.error.message]
        ELSE LET ast == parse(tokens.tokens)
             IN  IF ~ast.ok
                 THEN [ok |-> TRUE, isNull |-> FALSE, message |-> ast.error.message]
                 ELSE [ok |-> TRUE, isNull |-> TRUE]

(***************************************************************************)
(* evaluateShowWhen, whose code is not among the sources at hand: an empty *)
(* or absent list gives true; otherwise the logical OR across              *)
(* safeEvaluateExpression on each entry, in list order, stopping at the    *)
(* first truthy result.  The outcome carries the indices of the entries    *)
(* evaluated.                                                              *)
(***************************************************************************)
RECURSIVE evaluateShowWhenFrom(_, _, _, _)

\* the step of the OR at entry k, whose safeEvaluateExpression gave r
evaluateShowWhenEntry(r, list, ctx, k, evaluated) ==
    IF ~r.ok THEN [ok |-> FALSE, error |-> r.error, evaluated |-> Append(evaluated, k)]
    ELSE IF ToBoolean(r.value)
    THEN [ok |-> TRUE, value |-> Bool(TRUE), evaluated |-> Append(evaluated, k)]
    ELSE evaluateShowWhenFrom(list, ctx, k + 1, Append(evaluated, k))

evaluateShowWhenFrom(list, ctx, k, evaluated) ==
    IF k > Len(list)
    THEN [ok |-> TRUE, value |-> Bool(FALSE), evaluated |-> evaluated]
    ELSE evaluateShowWhenEntry(safeEvaluateExpression(list[k], ctx),
                               list, ctx, k, evaluated)

\* evaluateShowWhen as it would be without the test for an empty or absent
\* list: the OR over no entry is false, and undefined has no entries to read
evaluateShowWhen_NoEmptyTest(expressions, ctx) ==
    IF ~expressions.present
    THEN [ok |-> FALSE,
          error |-> TypeError(<<"Cannot read properties of undefined", "some">>),
          evaluated |-> <<>>]
    ELSE evaluateShowWhenFrom(expressions.list, ctx, 1, <<>>)

evaluateShowWhen(expressions, ctx) ==
    IF ~expressions.present \/ expressions.list = <<>>
    THEN [ok |-> TRUE, value |-> Bool(TRUE), evaluated |-> <<>>]
    ELSE evaluateShowWhenFrom(expressions.list, ctx, 1, <<>>)

(***************************************************************************)
(* Inputs: the contexts and the expression strings the callers pass.       *)
(***************************************************************************)
MaxElems == 2   \* the longest array in a context
MaxArgs == 2    \* the longest argument list and array literal in a source

Wa == <<"a">>
Wb == <<"b">>
WtoString == <<"t","o","S","t","r","i","n","g">>
Ws == <<"'","s","'">>
W1 == <<"1">>

\* the array of the first n of 's', 1, null
ContextArray(ref, n) == Arr(ref, SubSeq(<<Str(<<"s">>), Num(1), Null>>, 1, n))

\* what a context may hold under key a
ValuesOfA ==
    {Bool(TRUE), Num(0), Str(<<"s">>), Null, Undefined,
     Obj(<<"context", Wa>>, (Wb :> Str(<<"s">>))),
     Obj(<<"context", Wa>>,
         (Wa :> Null) @@ (Wb :> ContextArray(<<"context", Wa, Wb>>, 1)))}
    \cup {ContextArray(<<"context", Wa>>, n) : n \in 0..MaxElems}

\* what a context may hold under key b
ValuesOfB == {Str(<<"s">>)}

\* the contexts: mappings whose keys are among a and b
Contexts ==
    {Obj(<<"context">>, <<>>)}
    \cup {Obj(<<"context">>, (Wa :> va)) : va \in ValuesOfA}
    \cup {Obj(<<"context">>, (Wb :> vb)) : vb \in ValuesOfB}
    \cup {Obj(<<"context">>, (Wa :> va) @@ (Wb :> vb)) :
              va \in ValuesOfA, vb \in ValuesOfB}

\* the first n of 's', b, 1 separated by commas
RECURSIVE CommaList(_, _)
CommaList(items, n) ==
    IF n = 0 THEN <<>>
    ELSE IF n = 1 THEN items[1]
    ELSE CommaList(items, n - 1) \o <<",">> \o items[n]
ArgText(n) == CommaList(<<Ws, Wb, W1, Wa>>, n)

Member(x, p) == x \o <<".">> \o p
Call(x, m, args) == x \o <<".">> \o m \o <<"(">> \o args \o <<")">>
Bracket(items) == <<"[">> \o items \o <<"]">>

\* operand phrases
Operands ==
    {Wa, Wb, WtoString, KwNull, W1, Ws,
     Member(Wa, Wb), Member(Wa, KeyLength), Member(Wa, WtoString),
     Member(Member(Wa, Wb), Wb), Member(Member(Wa, Wb), KeyLength),
     Member(Ws, KeyLength), Member(KwNull, Wb),
     Call(Wa, Wb, <<>>), Call(Member(Wa, Wb), KeyIncludes, Ws),
     Call(Ws, KeyIncludes, Ws), Call(Wa, KeyIncludes, Wb),
     <<"(">> \o Wa \o <<")">>, <<"!">> \o Wa}
    \cup {Call(Wa, KeyIncludes, ArgText(n)) : n \in 0..MaxArgs}
    \cup {Bracket(ArgText(n)) : n \in 0..MaxArgs}
    \cup {Member(Bracket(ArgText(n)), KeyLength) : n \in 0..MaxArgs}
    \cup {Call(Bracket(ArgText(n)), KeyIncludes, Wb) : n \in 0..MaxArgs}
    \cup {Call(Bracket(ArgText(n)), KeyIncludes, <<>>) : n \in 0..MaxArgs}

RightOperands == {Wb, Ws, Member(Wa, Wb), Call(Wa, KeyIncludes, <<>>)}

BinaryOperators == {OpAnd, OpOr, <<"=","=","=">>, <<"=","=">>, <<"<">>}

\* expression strings the grammar rejects
Malformed ==
    {<<>>, <<"a","*","*","2">>, <<"a",".","(",")">>, <<"a"," ","=","=","="," ">>,
     <<"a","!","!","!","b">>, <<"=","=","=">>, <<"a","(",")">>, <<"a","[","1","]">>,
     <<"(","a">>, <<"[","a",",","]">>, <<"a"," ","b">>, <<"a",".","b","(","b">>,
     <<"a","&","b">>, <<"a",".","1">>}

Sources ==
    Operands
    \cup {x \o <<" ">> \o op \o <<" ">> \o y :
              x \in Operands, op \in BinaryOperators, y \in RightOperands}
    \cup Malformed

(***************************************************************************)
(* The callers: one expression string and one context, on which the three  *)
(* public functions are called.                                            *)
(***************************************************************************)
NotCalled == [called |-> FALSE]

\* the showWhen argument: undefined, or a list of expression strings
Absent == [present |-> FALSE]
Present(list) == [present |-> TRUE, list |-> list]

Init ==
    /\ source \in Sources
    /\ data \in Contexts
    /\ evaluator = NotCalled
    /\ result = NotCalled
    /\ safeResult = NotCalled
    /\ validation = NotCalled
    /\ showWhen = Absent
    /\ shown = NotCalled
    /\ lexing = NotCalled
    /\ envContent = <<>>
    /\ envAst = NotCalled
    /\ envCall = NotCalled
    /\ envIds = 0

\* const evaluate = compileExpression(source)
Compile ==
    /\ evaluator = NotCalled
    /\ evaluator' = compileExpression(source)
    /\ UNCHANGED <<source, data, result, safeResult, validation, showWhen, shown,
                 lexing, envVars>>

\* Invoke as it would be if the closure kept the value of its last call in
\* place of the tree it evaluated
Invoke_CachesValue ==
    /\ evaluator # NotCalled
    /\ evaluator.ok
    /\ result = NotCalled
    /\ result' = Evaluate(evaluator.ast, data)
    /\ evaluator' = IF result'.ok THEN [evaluator EXCEPT !.ast = Literal(result'.value)]
                    ELSE evaluator
    /\ UNCHANGED <<source, data, safeResult, validation, showWhen, shown,
                 lexing, envVars>>

\* evaluate(data), on the closure a successful compileExpression returned
Invoke ==
    /\ evaluator # NotCalled
    /\ evaluator.ok
    /\ result = NotCalled
    /\ result' = Evaluate(evaluator.ast, data)
    /\ UNCHANGED <<source, data, evaluator, safeResult, validation, showWhen, shown,
                 lexing, envVars>>

\* safeEvaluateExpression(source, data)
SafeEvaluate ==
    /\ safeResult = NotCalled
    /\ safeResult' = safeEvaluateExpression(source, data)
    /\ UNCHANGED <<source, data, evaluator, result, validation, showWhen, shown,
                 lexing, envVars>>

\* validateExpressionSyntax(source)
Validate ==
    /\ validation = NotCalled
    /\ validation' = validateExpressionSyntax(source)
    /\ UNCHANGED <<source, data, evaluator, result, safeResult, showWhen, shown,
                 lexing, envVars>>

\* evaluateShowWhen(showWhen, data)
ShowWhen ==
    /\ shown = NotCalled
    /\ shown' = evaluateShowWhen(showWhen, data)
    /\ UNCHANGED <<source, data, evaluator, result, safeResult, validation, showWhen,
                 lexing, envVars>>

Next == Compile \/ Invoke \/ SafeEvaluate

Spec == Init /\ [][Next]_vars

(***************************************************************************)
(* The callers of the syntax functions alone: every string of at most      *)
(* MaxWords words of Vocabulary, and the expression strings above, on the  *)
(* empty context.                                                          *)
(***************************************************************************)
MaxWords == 3

Vocabulary ==
    {<<"a">>, <<"1">>, <<".">>, <<"(">>, <<")">>, <<"[">>, <<"]">>, <<",">>,
     <<"&","&">>, <<"!">>, <<"=">>, <<"'">>}

RECURSIVE WordStrings(_)
WordStrings(n) ==
    IF n = 0 THEN {<<>>}
    ELSE LET shorter == WordStrings(n - 1)
         IN  shorter \cup {s \o w : s \in shorter, w \in Vocabulary}

InitSyntax ==
    /\ source \in WordStrings(MaxWords) \cup Sources
    /\ data = Obj(<<"context">>, <<>>)
    /\ evaluator = NotCalled
    /\ result = NotCalled
    /\ safeResult = NotCalled
    /\ validation = NotCalled
    /\ showWhen = Absent
    /\ shown = NotCalled
    /\ lexing = NotCalled
    /\ envContent = <<>>
    /\ envAst = NotCalled
    /\ envCall = NotCalled
    /\ envIds = 0

NextSyntax == Compile \/ Invoke \/ Validate

SpecSyntax == InitSyntax /\ [][NextSyntax]_vars

(***************************************************************************)
(* The callers that compare values: every comparison operator and includes *)
(* on every pair of value phrases, on a context whose key a holds          *)
(* undefined or a number.                                                  *)
(***************************************************************************)
ValuePhrases ==
    {<<"0">>, W1, <<"1","0">>, <<"1",".","2",".","3">>,
     <<"'","'">>, <<"'","1","'">>, <<"'","1","0","'">>, <<"'","9","'">>, Ws,
     KwTrue, KwFalse, KwNull, Wa}

ComparisonPhrases ==
    {<<"=","=","=">>, <<"!","=","=">>, <<"=","=">>, <<"!","=">>,
     <<">">>, <<"<">>, <<">","=">>, <<"<","=">>}

ValueSources ==
    {x \o <<" ">> \o op \o <<" ">> \o y :
         x \in ValuePhrases, op \in ComparisonPhrases, y \in ValuePhrases}
    \cup {Call(Bracket(x), KeyIncludes, y) : x \in ValuePhrases, y \in ValuePhrases}
    \cup {Call(Bracket(Ws \o <<",">> \o x), KeyIncludes, y) :
              x \in ValuePhrases, y \in ValuePhrases}

ValueContexts ==
    {Obj(<<"context">>, (Wa :> Undefined)), Obj(<<"context">>, (Wa :> Num(9)))}

InitValues ==
    /\ source \in ValueSources
    /\ data \in ValueContexts
    /\ evaluator = NotCalled
    /\ result = NotCalled
    /\ safeResult = NotCalled
    /\ validation = NotCalled
    /\ showWhen = Absent
    /\ shown = NotCalled
    /\ lexing = NotCalled
    /\ envContent = <<>>
    /\ envAst = NotCalled
    /\ envCall = NotCalled
    /\ envIds = 0

NextValues == Compile \/ Invoke

SpecValues == InitValues /\ [][NextValues]_vars

(***************************************************************************)
(* The callers that mix operators of different precedence: expression      *)
(* strings of two operators, with and without parentheses, over atoms.     *)
(***************************************************************************)
Infix(x, op, y) == x \o <<" ">> \o op \o <<" ">> \o y
Parens(x) == <<"(">> \o x \o <<")">>

Atoms == {Wa, Wb, Ws, KwNull, KwTrue}

OpEq == <<"=","=","=">>

PrecedenceSources ==
    {Infix(x, OpOr, Infix(y, OpAnd, z)) : x \in Atoms, y \in Atoms, z \in Atoms}
    \cup {Infix(Infix(x, OpAnd, y), OpOr, z) : x \in Atoms, y \in Atoms, z \in Atoms}
    \cup {Infix(x, OpAnd, Infix(y, OpEq, z)) : x \in Atoms, y \in Atoms, z \in Atoms}
    \cup {Infix(Infix(x, OpEq, y), OpAnd, z) : x \in Atoms, y \in Atoms, z \in Atoms}
    \cup {Infix(OpNot \o x, OpEq, y) : x \in Atoms, y \in Atoms}
    \cup {OpNot \o Member(x, Wb) : x \in Atoms}
    \cup {Infix(Parens(Infix(x, OpOr, y)), OpAnd, z) :
              x \in Atoms, y \in Atoms, z \in Atoms}
    \cup {OpNot \o Parens(Infix(x, OpEq, y)) : x \in Atoms, y \in Atoms}

PrecedenceContexts ==
    {Obj(<<"context">>, <<>>),
     Obj(<<"context">>, (Wa :> Bool(TRUE)) @@ (Wb :> Str(<<"s">>))),
     Obj(<<"context">>, (Wa :> Num(0)) @@ (Wb :> Null))}

InitPrecedence ==
    /\ source \in PrecedenceSources
    /\ data \in PrecedenceContexts
    /\ evaluator = NotCalled
    /\ result = NotCalled
    /\ safeResult = NotCalled
    /\ validation = NotCalled
    /\ showWhen = Absent
    /\ shown = NotCalled
    /\ lexing = NotCalled
    /\ envContent = <<>>
    /\ envAst = NotCalled
    /\ envCall = NotCalled
    /\ envIds = 0

NextPrecedence == Compile \/ Invoke

SpecPrecedence == InitPrecedence /\ [][NextPrecedence]_vars

(***************************************************************************)
(* The callers of evaluateShowWhen: an absent list, or a list of at most   *)
(* MaxEntries expression strings, some of which fail to compile or to      *)
(* evaluate.                                                               *)
(***************************************************************************)
MaxEntries == 3

ShowWhenEntries ==
    {Wa, Wb, Ws, WtoString, <<"(","a">>, Call(Wa, KeyIncludes, <<>>)}

RECURSIVE ShowWhenLists(_)
ShowWhenLists(n) ==
    IF n = 0 THEN {<<>>}
    ELSE LET shorter == ShowWhenLists(n - 1)
         IN  shorter \cup {Append(l, e) : l \in shorter, e \in ShowWhenEntries}

InitShowWhen ==
    /\ source = <<>>
    /\ data \in Contexts
    /\ evaluator = NotCalled
    /\ result = NotCalled
    /\ safeResult = NotCalled
    /\ validation = NotCalled
    /\ showWhen \in {Absent} \cup {Present(l) : l \in ShowWhenLists(MaxEntries)}
    /\ shown = NotCalled
    /\ lexing = NotCalled
    /\ envContent = <<>>
    /\ envAst = NotCalled
    /\ envCall = NotCalled
    /\ envIds = 0

NextShowWhen == ShowWhen

SpecShowWhen == InitShowWhen /\ [][NextShowWhen]_vars

(***************************************************************************)
(* The callers that chain two operators of one precedence level without    *)
(* parentheses: x op1 y op2 z over atoms, for '||', for '&&' and for every *)
(* pair of comparison operators.                                           *)
(***************************************************************************)
ChainAtoms == {Wa, Wb, Ws, KwTrue}

ChainLevels == {{OpOr}, {OpAnd}, ComparisonPhrases}

ChainSources ==
    {Infix(Infix(x, op1, y), op2, z) :
         <<x, y, z>> \in ChainAtoms \X ChainAtoms \X ChainAtoms,
         <<op1, op2>> \in UNION {level \X level : level \in ChainLevels}}

InitChains ==
    /\ source \in ChainSources
    /\ data \in PrecedenceContexts
    /\ evaluator = NotCalled
    /\ result = NotCalled
    /\ safeResult = NotCalled
    /\ validation = NotCalled
    /\ showWhen = Absent
    /\ shown = NotCalled
    /\ lexing = NotCalled
    /\ envContent = <<>>
    /\ envAst = NotCalled
    /\ envCall = NotCalled
    /\ envIds = 0

NextChains == Compile \/ Invoke

SpecChains == InitChains /\ [][NextChains]_vars


(***************************************************************************)
(* The callers seen one loop iteration of the lexer at a time: the call    *)
(* compileExpression(source) on every string of at most MaxChars           *)
(* characters of the operator characters, on every such string of the      *)
(* characters of string literals, and on the expression strings above;     *)
(* the evaluator it returns is then called on one context.                 *)
(***************************************************************************)
MaxChars == 4

OperatorChars == {"a", "!", "=", "&", "|", "<", ">", "*"}

StringChars == {"'", "\"", "\\", "s", "n", " "}

RECURSIVE CharStrings(_, _)
CharStrings(chars, n) ==
    IF n = 0 THEN {<<>>}
    ELSE LET shorter == CharStrings(chars, n - 1)
         IN  shorter \cup {Append(s, c) : s \in shorter, c \in chars}

LexerSources ==
    CharStrings(OperatorChars, MaxChars) \cup CharStrings(StringChars, MaxChars)
        \cup Sources

LexerContext ==
    Obj(<<"context">>,
        (Wa :> ContextArray(<<"context", Wa>>, 2)) @@ (Wb :> Str(<<"s">>)))

InitLexer ==
    /\ source \in LexerSources
    /\ data = LexerContext
    /\ evaluator = NotCalled
    /\ result = NotCalled
    /\ safeResult = NotCalled
    /\ validation = NotCalled
    /\ showWhen = Absent
    /\ shown = NotCalled
    /\ lexing = Lexing(1, <<>>)
    /\ envContent = <<>>
    /\ envAst = NotCalled
    /\ envCall = NotCalled
    /\ envIds = 0

\* one iteration of the loop of tokenize, or its end
LexStep ==
    /\ lexing # NotCalled
    /\ IsLexing(lexing)
    /\ lexing' = TokenizeStep(source, lexing.at, lexing.pushed)
    /\ UNCHANGED <<source, data, evaluator, result, safeResult, validation, showWhen,
                 shown, envVars>>

\* the rest of compileExpression, once tokenize has returned or thrown
CompileLexed ==
    /\ lexing # NotCalled
    /\ ~IsLexing(lexing)
    /\ evaluator = NotCalled
    /\ evaluator' = CompileTokens(lexing)
    /\ UNCHANGED <<source, data, result, safeResult, validation, showWhen, shown,
                 lexing, envVars>>

NextLexer == LexStep \/ CompileLexed \/ Invoke

SpecLexer == InitLexer /\ [][NextLexer]_vars

\* a call that has begun goes on: the loop of the lexer takes its next
\* iteration, and the call of the evaluator is made to its end
SpecLexerFair == SpecLexer /\ WF_vars(LexStep) /\ WF_vars(Invoke)


(***************************************************************************)
(* The callers that test truthiness: '!', '!!', '&&' and '||' on every     *)
(* value phrase, on contexts whose key a holds a value of each kind.       *)
(***************************************************************************)
TruthPhrases == ValuePhrases \cup {<<"'","0","'">>, <<"[","]">>}

TruthSources ==
    {OpNot \o v : v \in TruthPhrases}
    \cup {OpNot \o OpNot \o v : v \in TruthPhrases}
    \cup {Infix(v, op, x) : v \in TruthPhrases, op \in {OpAnd, OpOr}, x \in {Ws, Wb}}

TruthContexts ==
    {Obj(<<"context">>, (Wa :> va)) :
         va \in {Undefined, NaN, Num(0), Num(1), Obj(<<"context", Wa>>, <<>>),
                 ContextArray(<<"context", Wa>>, 0)}}

InitTruth ==
    /\ source \in TruthSources
    /\ data \in TruthContexts
    /\ evaluator = NotCalled
    /\ result = NotCalled
    /\ safeResult = NotCalled
    /\ validation = NotCalled
    /\ showWhen = Absent
    /\ shown = NotCalled
    /\ lexing = NotCalled
    /\ envContent = <<>>
    /\ envAst = NotCalled
    /\ envCall = NotCalled
    /\ envIds = 0

NextTruth == Compile \/ Invoke

SpecTruth == InitTruth /\ [][NextTruth]_vars


(***************************************************************************)
(* The callers that meet failures at different places of an expression:    *)
(* member accesses, method calls, array literals and comparisons over the  *)
(* atoms a, b and 's', on the contexts that hold a, b, both or neither.    *)
(***************************************************************************)
OrderAtoms == {Wa, Wb, Ws}

OrderSources ==
    {Member(x, y) : x \in OrderAtoms, y \in {Wa, Wb}}
    \cup {Call(x, m, y) : x \in OrderAtoms, m \in {KeyIncludes, Wb}, y \in OrderAtoms}
    \cup {Bracket(x \o <<",">> \o y \o <<",">> \o z) :
              x \in OrderAtoms, y \in OrderAtoms, z \in OrderAtoms}
    \cup {Infix(x, op, y) : x \in OrderAtoms, op \in {<<"<">>, OpEq}, y \in OrderAtoms}
    \cup {Infix(Bracket(x \o <<",">> \o y), OpEq, Member(z, Wb)) :
              x \in OrderAtoms, y \in OrderAtoms, z \in OrderAtoms}

OrderContexts ==
    {Obj(<<"context">>, <<>>),
     Obj(<<"context">>, (Wa :> ContextArray(<<"context", Wa>>, 1))),
     Obj(<<"context">>, (Wb :> Str(<<"s">>))),
     Obj(<<"context">>,
         (Wa :> ContextArray(<<"context", Wa>>, 1)) @@ (Wb :> Str(<<"s">>)))}

InitOrder ==
    /\ source \in OrderSources
    /\ data \in OrderContexts
    /\ evaluator = NotCalled
    /\ result = NotCalled
    /\ safeResult = NotCalled
    /\ validation = NotCalled
    /\ showWhen = Absent
    /\ shown = NotCalled
    /\ lexing = NotCalled
    /\ envContent = <<>>
    /\ envAst = NotCalled
    /\ envCall = NotCalled
    /\ envIds = 0

NextOrder == Compile \/ Invoke

SpecOrder == InitOrder /\ [][NextOrder]_vars


(***************************************************************************)
(* The .env file parser (env-parser.ts).  A text is a sequence of          *)
(* one-character strings, read with the 0-based indices of the code; an id *)
(* of generateId is the number of the call that made it, so that two ids   *)
(* differ and a comment object is found again by its id.                   *)
(***************************************************************************)
Newline == "\n"

CarriageReturn == "\r"

Tab == "\t"

Backslash == "\\"

DoubleQuote == "\""

SingleQuote == "'"

Backtick == "BACKTICK"

QuoteChars == {DoubleQuote, SingleQuote, Backtick}

LineBreaks == {Newline, CarriageReturn}

\* the white space of String.prototype.trim that the texts of the model hold
TrimmedChars == {" ", Tab, Newline, CarriageReturn}

NoChar == "undefined"

NoQuote == "null"

NoComment == [type |-> "undefined"]

\* content[i]
EnvCharAt(content, i) ==
    IF i >= 0 /\ i < Len(content) THEN content[i + 1] ELSE NoChar

\* content.slice(from, to)
Slice(content, from, to) == SubSeq(content, from + 1, to)

RECURSIVE trimStart(_)
trimStart(text) ==
    IF text # <<>> /\ Head(text) \in TrimmedChars THEN trimStart(Tail(text)) ELSE text

RECURSIVE trimEnd(_)
trimEnd(text) ==
    IF text # <<>> /\ text[Len(text)] \in TrimmedChars
    THEN trimEnd(SubSeq(text, 1, Len(text) - 1))
    ELSE text

trim(text) == trimEnd(trimStart(text))

\* text.replace(/pattern/g, replacement): the matches from the left, not overlapping
RECURSIVE ReplaceAll(_, _, _)
ReplaceAll(text, pattern, replacement) ==
    IF Len(text) < Len(pattern) THEN text
    ELSE IF SubSeq(text, 1, Len(pattern)) = pattern
         THEN replacement \o ReplaceAll(SubSeq(text, Len(pattern) + 1, Len(text)),
                                        pattern, replacement)
         ELSE <<Head(text)>> \o ReplaceAll(Tail(text), pattern, replacement)

\* while (i < len && (content[i] === ' ' || content[i] === '\t')) i++
RECURSIVE SkipBlanks(_, _)
SkipBlanks(content, i) ==
    IF i < Len(content) /\ EnvCharAt(content, i) \in {" ", Tab}
    THEN SkipBlanks(content, i + 1)
    ELSE i

\* while (lineEnd < len && content[lineEnd] !== '\n' && content[lineEnd] !== '\r') lineEnd++
RECURSIVE LineEnd(_, _)
LineEnd(content, i) ==
    IF i < Len(content) /\ EnvCharAt(content, i) \notin LineBreaks
    THEN LineEnd(content, i + 1)
    ELSE i

\* Move to next line
NextLine(content, lineEnd) ==
    IF EnvCharAt(content, lineEnd) = CarriageReturn
       /\ EnvCharAt(content, lineEnd + 1) = Newline
    THEN lineEnd + 2
    ELSE lineEnd + 1

\* The two scanning loops of a variable line: from start to the first stop
\* character ('=' for the key, '#' for the value) outside quotes, or to a
\* line break outside quotes, or to the end of the text.  quoteChar is ''
\* outside quotes.
RECURSIVE FindUnquoted(_, _, _, _, _)
FindUnquoted(content, start, k, quoteChar, stop) ==
    IF k >= Len(content) THEN [end |-> k, found |-> FALSE]
    ELSE LET c == EnvCharAt(content, k)
         IN  IF quoteChar = "" /\ c \in QuoteChars
             THEN FindUnquoted(content, start, k + 1, c, stop)
             ELSE IF quoteChar # "" /\ c = quoteChar
             THEN FindUnquoted(content, start, k + 1,
                               IF k = start \/ EnvCharAt(content, k - 1) # Backslash
                               THEN "" ELSE quoteChar,
                               stop)
             ELSE IF quoteChar = "" /\ c = stop
             THEN [end |-> k, found |-> TRUE]
             ELSE IF quoteChar = "" /\ c \in LineBreaks
             THEN [end |-> k, found |-> FALSE]
             ELSE FindUnquoted(content, start, k + 1, quoteChar, stop)

CommentNode(id, text) == [type |-> "Comment", id |-> id, text |-> text]

EmptyLineNode(id) == [type |-> "EmptyLine", id |-> id]

createVariableAssignment(key, value, quotedWith, comment, beforeComment, id) ==
    [type |-> "VariableAssignment", id |-> id, key |-> key, value |-> value,
     quotedWith |-> quotedWith, comment |-> comment, beforeComment |-> beforeComment]

isCommentNode(node) == node.type = "Comment"

isVariableAssignmentNode(node) == node.type = "VariableAssignment"

EnvAST(nodes, errors, variables) ==
    [nodes |-> nodes, errors |-> errors, variables |-> variables]

\* variables[key] = value
SetVariable(variables, key, value) == (key :> value) @@ variables

\* delete variables[key]
DeleteVariable(variables, key) ==
    [k \in DOMAIN variables \ {key} |-> variables[k]]

MissingAssignment ==
    [message |-> "Invalid syntax: missing = assignment operator", severity |-> "error"]

\* Handle quoted values: the quote character and the text inside, with the
\* four replacements of a double-quoted value made one after the other
UnquoteValue(value) ==
    IF Len(value) >= 2 /\ value[1] \in QuoteChars /\ value[Len(value)] = value[1]
    THEN LET inner == SubSeq(value, 2, Len(value) - 1)
         IN  [quotedWith |-> value[1],
              value |-> IF value[1] = DoubleQuote
                        THEN ReplaceAll(
                                 ReplaceAll(
                                     ReplaceAll(
                                         ReplaceAll(inner, <<Backslash, DoubleQuote>>,
                                                    <<DoubleQuote>>),
                                         <<Backslash, "n">>, <<Newline>>),
                                     <<Backslash, "t">>, <<Tab>>),
                                 <<Backslash, Backslash>>, <<Backslash>>)
                        ELSE inner]
    ELSE [quotedWith |-> NoQuote, value |-> value]

\* One variable line that has its '=' at equalIndex: the node, and where the
\* next line starts.  The inline comment takes its id before the node does.
VariableLine(content, keyStart, equalIndex, beforeCommentNode, ids) ==
    LET key == trim(Slice(content, keyStart, equalIndex))
        valueStart == equalIndex + 1
        scan == FindUnquoted(content, valueStart, valueStart, "", "#")
        quoted == UnquoteValue(trim(Slice(content, valueStart, scan.end)))
        lineEnd == IF scan.found THEN LineEnd(content, scan.end) ELSE scan.end
        inlineComment ==
            IF scan.found
            THEN CommentNode(ids + 1, trimStart(Slice(content, scan.end + 1, lineEnd)))
            ELSE NoComment
        made == IF scan.found THEN ids + 2 ELSE ids + 1
    IN  [node |-> createVariableAssignment(key, quoted.value, quoted.quotedWith,
                                           inlineComment, beforeCommentNode, made),
         next |-> NextLine(content, lineEnd),
         ids |-> made]

\* while (i < len) { ... } of parseEnvAST, from the index i on
RECURSIVE ParseFrom(_, _, _, _, _, _, _), ParseAfter(_, _, _, _, _)
ParseFrom(content, i, nodes, errors, variables, beforeCommentNode, ids) ==
    IF i >= Len(content) THEN [ast |-> EnvAST(nodes, errors, variables), ids |-> ids]
    ELSE LET at == SkipBlanks(content, i)
         IN  IF at < Len(content) /\ EnvCharAt(content, at) \in LineBreaks
             THEN ParseFrom(content, NextLine(content, at),
                            Append(nodes, EmptyLineNode(ids + 1)),
                            errors, variables, NoComment, ids + 1)
             ELSE IF at < Len(content) /\ EnvCharAt(content, at) = "#"
             THEN ParseFrom(content, NextLine(content, LineEnd(content, at + 1)),
                            Append(nodes,
                                   CommentNode(ids + 1,
                                       trimStart(Slice(content, at + 1,
                                                       LineEnd(content, at + 1))))),
                            errors, variables,
                            CommentNode(ids + 1,
                                trimStart(Slice(content, at + 1,
                                                LineEnd(content, at + 1)))),
                            ids + 1)
             ELSE IF ~FindUnquoted(content, at, at, "", "=").found
             THEN ParseFrom(content,
                            NextLine(content,
                                LineEnd(content,
                                        FindUnquoted(content, at, at, "", "=").end)),
                            nodes, Append(errors, MissingAssignment), variables,
                            NoComment, ids)
             ELSE ParseAfter(content,
                             VariableLine(content, at,
                                          FindUnquoted(content, at, at, "", "=").end,
                                          beforeCommentNode, ids),
                             nodes, errors, variables)

\* nodes.push(variableNode); if (key) variables[key] = value; and the next line
ParseAfter(content, line, nodes, errors, variables) ==
    ParseFrom(content, line.next, Append(nodes, line.node), errors,
              IF line.node.key # <<>>
              THEN SetVariable(variables, line.node.key, line.node.value)
              ELSE variables,
              NoComment, line.ids)

\* parseEnvAST(content), with ids the number of ids handed out before the call
parseEnvAST(content, ids) == ParseFrom(content, 0, <<>>, <<>>, <<>>, NoComment, ids)


\* value.replace(/\\/g, '\\\\').replace(/"/g, '\\"').replace(/\n/g, '\\n').replace(/\t/g, '\\t')
EscapeValue(value) ==
    ReplaceAll(
        ReplaceAll(
            ReplaceAll(
                ReplaceAll(value, <<Backslash>>, <<Backslash, Backslash>>),
                <<DoubleQuote>>, <<Backslash, DoubleQuote>>),
            <<Newline>>, <<Backslash, "n">>),
        <<Tab>>, <<Backslash, "t">>)

Includes(text, ch) == \E k \in 1..Len(text) : text[k] = ch

formatVariableValue(value, originalQuoteType) ==
    IF originalQuoteType = DoubleQuote
    THEN <<DoubleQuote>> \o EscapeValue(value) \o <<DoubleQuote>>
    ELSE IF originalQuoteType = SingleQuote
    THEN <<SingleQuote>> \o value \o <<SingleQuote>>
    ELSE IF originalQuoteType = Backtick
    THEN <<Backtick>> \o value \o <<Backtick>>
    ELSE IF \/ Includes(value, " ")
            \/ Includes(value, Newline)
            \/ Includes(value, Tab)
            \/ Includes(value, "#")
    THEN <<DoubleQuote>> \o EscapeValue(value) \o <<DoubleQuote>>
    ELSE value

\* lines.join(separator)
RECURSIVE JoinLines(_, _)
JoinLines(lines, separator) ==
    IF lines = <<>> THEN <<>>
    ELSE IF Len(lines) = 1 THEN lines[1]
    ELSE lines[1] \o separator \o JoinLines(Tail(lines), separator)

\* `${node.key}=${quotedValue}${inlineComment}`
AssignmentText(node) ==
    node.key \o <<"=">> \o formatVariableValue(node.value, node.quotedWith)
    \o (IF node.comment # NoComment THEN <<" ", "#", " ">> \o node.comment.text ELSE <<>>)

\* mode 'all': the callback of ast.nodes.map
NodeText(node) ==
    IF node.type = "EmptyLine" THEN <<>>
    ELSE IF node.type = "Comment" THEN <<"#", " ">> \o node.text
    ELSE AssignmentText(node)

\* mode 'minimal': the callback of ast.nodes.map
MinimalText(node) ==
    IF isVariableAssignmentNode(node)
    THEN (IF node.beforeComment # NoComment
          THEN <<"#", " ">> \o node.beforeComment.text \o <<Newline>>
          ELSE <<>>)
         \o AssignmentText(node)
    ELSE <<>>

serializeEnvAST(ast, mode) ==
    IF mode = "minimal"
    THEN JoinLines(SelectSeq([k \in DOMAIN ast.nodes |-> MinimalText(ast.nodes[k])],
                             LAMBDA text : text # <<>>),
                   <<Newline, Newline>>)
    ELSE JoinLines([k \in DOMAIN ast.nodes |-> NodeText(ast.nodes[k])], <<Newline>>)

\* the nodes of ast that are variable assignments with this id
HasVariable(ast, id) ==
    \E k \in DOMAIN ast.nodes :
        isVariableAssignmentNode(ast.nodes[k]) /\ ast.nodes[k].id = id

\* ast.nodes.find(...): the first variable assignment with this id
findVariableNodeById(ast, id) ==
    IF HasVariable(ast, id)
    THEN ast.nodes[CHOOSE k \in DOMAIN ast.nodes :
                       /\ isVariableAssignmentNode(ast.nodes[k]) /\ ast.nodes[k].id = id
                       /\ \A j \in 1..(k - 1) :
                              ~(isVariableAssignmentNode(ast.nodes[j]) /\ ast.nodes[j].id = id)]
    ELSE NoComment

updateVariableByIdInAST(ast, id, newValue) ==
    IF ~HasVariable(ast, id) THEN ast
    ELSE LET last == CHOOSE k \in DOMAIN ast.nodes :
                         /\ isVariableAssignmentNode(ast.nodes[k]) /\ ast.nodes[k].id = id
                         /\ \A j \in (k + 1)..Len(ast.nodes) :
                                ~(isVariableAssignmentNode(ast.nodes[j]) /\ ast.nodes[j].id = id)
         IN  [ast EXCEPT
                 !.nodes = [k \in DOMAIN ast.nodes |->
                               IF isVariableAssignmentNode(ast.nodes[k]) /\ ast.nodes[k].id = id
                               THEN [ast.nodes[k] EXCEPT !.value = newValue]
                               ELSE ast.nodes[k]],
                 !.variables = SetVariable(ast.variables, ast.nodes[last].key, newValue)]

\* addVariableToAST(ast, key, value, description, beforeComment); an empty
\* description or beforeComment stands for the absent one too, both being falsy
addVariableToAST(ast, key, value, description, beforeComment, ids) ==
    LET beforeCommentNode ==
            IF beforeComment # <<>> THEN CommentNode(ids + 1, beforeComment) ELSE NoComment
        base == IF beforeComment # <<>> THEN ids + 1 ELSE ids
        newVariableNode ==
            createVariableAssignment(
                key, value, NoQuote,
                IF description # <<>> THEN CommentNode(base + 2, description) ELSE NoComment,
                beforeCommentNode, base + 1)
    IN  [ast |-> [ast EXCEPT
                     !.nodes = (IF beforeComment # <<>>
                                THEN Append(ast.nodes, beforeCommentNode)
                                ELSE ast.nodes) \o <<newVariableNode>>,
                     !.variables = SetVariable(ast.variables, key, value)],
         ids |-> IF description # <<>> THEN base + 2 ELSE base + 1]

\* newNodes.splice(index, 1), with the 1-based index of the model
RemoveAt(nodes, index) ==
    SubSeq(nodes, 1, index - 1) \o SubSeq(nodes, index + 1, Len(nodes))

\* newNodes.splice(index, 0, node): node comes to stand at index
InsertAt(nodes, index, node) ==
    SubSeq(nodes, 1, index - 1) \o <<node>> \o SubSeq(nodes, index, Len(nodes))

\* newNodes.findIndex((n) => n === node): 0 where the code has -1
IndexOfNode(nodes, node) ==
    IF \E k \in DOMAIN nodes : nodes[k].type = node.type /\ nodes[k].id = node.id
    THEN CHOOSE k \in DOMAIN nodes :
             /\ nodes[k].type = node.type /\ nodes[k].id = node.id
             /\ \A j \in 1..(k - 1) : ~(nodes[j].type = node.type /\ nodes[j].id = node.id)
    ELSE 0

updateVariableBeforeCommentByIdInAST(ast, id, beforeComment, ids) ==
    IF ~HasVariable(ast, id) THEN [ast |-> ast, ids |-> ids]
    ELSE LET found == CHOOSE k \in DOMAIN ast.nodes :
                          /\ isVariableAssignmentNode(ast.nodes[k]) /\ ast.nodes[k].id = id
                          /\ \A j \in (k + 1)..Len(ast.nodes) :
                                 ~(isVariableAssignmentNode(ast.nodes[j])
                                   /\ ast.nodes[j].id = id)
             oldBeforeCommentNode == ast.nodes[found].beforeComment
             commentIndex ==
                 IF oldBeforeCommentNode # NoComment
                 THEN IndexOfNode(ast.nodes, oldBeforeCommentNode)
                 ELSE 0
             removed == IF commentIndex # 0 THEN RemoveAt(ast.nodes, commentIndex)
                        ELSE ast.nodes
             target == IF commentIndex # 0 /\ commentIndex < found THEN found - 1 ELSE found
             newBeforeCommentNode ==
                 IF beforeComment # <<>> THEN CommentNode(ids + 1, beforeComment)
                 ELSE NoComment
             inserted == IF beforeComment # <<>>
                         THEN InsertAt(removed, target, newBeforeCommentNode)
                         ELSE removed
             targetVariableIndex == IF beforeComment # <<>> THEN target + 1 ELSE target
         IN  [ast |-> [ast EXCEPT
                          !.nodes = [inserted EXCEPT
                                        ![targetVariableIndex].beforeComment =
                                            newBeforeCommentNode]],
              ids |-> IF beforeComment # <<>> THEN ids + 1 ELSE ids]

LowerLetters == <<"a","b","c","d","e","f","g","h","i","j","k","l","m",
                  "n","o","p","q","r","s","t","u","v","w","x","y","z">>

UpperLetters == <<"A","B","C","D","E","F","G","H","I","J","K","L","M",
                  "N","O","P","Q","R","S","T","U","V","W","X","Y","Z">>

\* one character of key.toUpperCase().replace(/[.-]/g, '_')
NormalizeChar(ch) ==
    IF ch \in {".", "-"} THEN "_"
    ELSE IF \E k \in 1..26 : LowerLetters[k] = ch
    THEN UpperLetters[CHOOSE k \in 1..26 : LowerLetters[k] = ch]
    ELSE ch

normalizeVariableKey(key) == [k \in DOMAIN key |-> NormalizeChar(key[k])]

renameVariableByIdInAST(ast, id, newKey) ==
    LET normalizedNewKey == normalizeVariableKey(newKey)
        variableNode == findVariableNodeById(ast, id)
    IN  IF variableNode = NoComment THEN ast
        ELSE IF variableNode.key = normalizedNewKey THEN ast
        ELSE [ast EXCEPT
                 !.nodes = [k \in DOMAIN ast.nodes |->
                               IF isVariableAssignmentNode(ast.nodes[k])
                                  /\ ast.nodes[k].id = id
                               THEN [ast.nodes[k] EXCEPT !.key = normalizedNewKey]
                               ELSE ast.nodes[k]],
                 !.variables =
                     IF variableNode.key \in DOMAIN ast.variables
                     THEN SetVariable(DeleteVariable(ast.variables, variableNode.key),
                                      normalizedNewKey, ast.variables[variableNode.key])
                     ELSE ast.variables]

removeVariableByIdFromAST_KeepsBeforeComment(ast, id) ==
    LET variableNode == findVariableNodeById(ast, id)
    IN  [ast EXCEPT
            !.nodes = SelectSeq(ast.nodes,
                          LAMBDA node : ~(isVariableAssignmentNode(node) /\ node.id = id)),
            !.variables = IF variableNode # NoComment /\ variableNode.key # <<>>
                          THEN DeleteVariable(ast.variables, variableNode.key)
                          ELSE ast.variables]

removeVariableByIdFromAST(ast, id) ==
    LET variableNode == findVariableNodeById(ast, id)
        beforeCommentToRemove ==
            IF variableNode # NoComment THEN variableNode.beforeComment ELSE NoComment
    IN  [ast EXCEPT
            !.nodes = SelectSeq(ast.nodes,
                          LAMBDA node :
                              /\ ~(isVariableAssignmentNode(node) /\ node.id = id)
                              /\ ~(beforeCommentToRemove # NoComment
                                   /\ isCommentNode(node)
                                   /\ node.id = beforeCommentToRemove.id)),
            !.variables = IF variableNode # NoComment /\ variableNode.key # <<>>
                          THEN DeleteVariable(ast.variables, variableNode.key)
                          ELSE ast.variables]


(***************************************************************************)
(* The callers of the .env parser.  A text is parsed once; the AST the     *)
(* caller holds is then serialized, or handed to the manipulation          *)
(* functions, each call replacing it by what the function returned.        *)
(***************************************************************************)
MaxEnvChars == 4   \* the longest text made of single characters

MaxLines == 3      \* the most lines of a text made of whole lines

MaxCalls == 2      \* the most manipulation calls after the parse

EnvChars == {"A", "=", "#", " ", Newline, DoubleQuote}

\* # c / A=1 / B=2
EnvFileLines ==
    {<<"#", " ", "c">>, <<"A", "=", "1">>, <<"B", "=", "2">>}

\* and: A="1 2" / A=1 # c / an empty line / B='1'
EnvTextLines ==
    EnvFileLines
    \cup {<<"A", "=", DoubleQuote, "1", " ", "2", DoubleQuote>>,
          <<"A", "=", "1", " ", "#", " ", "c">>,
          <<>>,
          <<"B", "=", SingleQuote, "1", SingleQuote>>}

RECURSIVE LineLists(_, _)
LineLists(lines, n) ==
    IF n = 0 THEN {<<>>}
    ELSE LineLists(lines, n - 1)
         \cup {Append(list, line) : list \in LineLists(lines, n - 1), line \in lines}

\* a comment that an empty line parts from its variable, and variables with
\* an empty key: "# c", "", "A=1" / "=1" / "# c", "=1", "A=1"
EnvOddFiles ==
    {JoinLines(<< <<"#", " ", "c">>, <<>>, <<"A", "=", "1">> >>, <<Newline>>),
     <<"=", "1">>,
     JoinLines(<< <<"#", " ", "c">>, <<"=", "1">>, <<"A", "=", "1">> >>, <<Newline>>)}

EnvFiles ==
    {JoinLines(list, <<Newline>>) : list \in LineLists(EnvFileLines, MaxLines)}
    \cup EnvOddFiles

EnvTexts ==
    CharStrings(EnvChars, MaxEnvChars)
    \cup {JoinLines(list, <<Newline>>) : list \in LineLists(EnvTextLines, MaxLines)}

\* the ids a caller passes: those of the nodes of the AST, and one of no node
IdsOf(ast) == {0} \cup {ast.nodes[k].id : k \in DOMAIN ast.nodes}

\* key, value, description and beforeComment of the calls of addVariableToAST
AddArguments ==
    {<<<<"A">>, <<"3">>, <<>>, <<>>>>,
     <<<<>>, <<"3">>, <<>>, <<>>>>,
     <<<<"C">>, <<"3">>, <<"d">>, <<"e">>>>}

NewValues == {<<"4">>}

NewKeys == {<<"a">>, <<"b", ".", "c">>}

NewBeforeComments == {<<>>, <<"e">>}

exprVars == <<source, data, evaluator, result, safeResult, validation, showWhen,
              shown, lexing>>

EnvCalled(op, id, calls) == [op |-> op, id |-> id, input |-> envAst, calls |-> calls]

InitEnvWith(contents) ==
    /\ source = <<>>
    /\ data = Obj(<<"context">>, <<>>)
    /\ evaluator = NotCalled
    /\ result = NotCalled
    /\ safeResult = NotCalled
    /\ validation = NotCalled
    /\ showWhen = Absent
    /\ shown = NotCalled
    /\ lexing = NotCalled
    /\ envContent \in contents
    /\ envAst = NotCalled
    /\ envCall = NotCalled
    /\ envIds = 0

InitEnvText == InitEnvWith(EnvTexts)

InitEnv == InitEnvWith(EnvFiles)

ParseEnv ==
    /\ envAst = NotCalled
    /\ envAst' = parseEnvAST(envContent, envIds).ast
    /\ envIds' = parseEnvAST(envContent, envIds).ids
    /\ envCall' = [op |-> "parseEnvAST", calls |-> 0]
    /\ UNCHANGED <<exprVars, envContent>>

SerializeEnv ==
    /\ envAst # NotCalled
    /\ envCall.op = "parseEnvAST"
    /\ \E mode \in {"all", "minimal"} :
           envCall' = [op |-> "serializeEnvAST", mode |-> mode,
                       text |-> serializeEnvAST(envAst, mode), calls |-> 1]
    /\ UNCHANGED <<exprVars, envContent, envAst, envIds>>

Manipulating ==
    /\ envAst # NotCalled
    /\ envCall.calls < MaxCalls

AddVariable ==
    /\ Manipulating
    /\ \E args \in AddArguments :
           LET r == addVariableToAST(envAst, args[1], args[2], args[3], args[4], envIds)
           IN  /\ envAst' = r.ast
               /\ envIds' = r.ids
    /\ envCall' = EnvCalled("addVariableToAST", 0, envCall.calls + 1)
    /\ UNCHANGED <<exprVars, envContent>>

UpdateVariable ==
    /\ Manipulating
    /\ \E id \in IdsOf(envAst), newValue \in NewValues :
           /\ envAst' = updateVariableByIdInAST(envAst, id, newValue)
           /\ envCall' = EnvCalled("updateVariableByIdInAST", id, envCall.calls + 1)
    /\ UNCHANGED <<exprVars, envContent, envIds>>

RenameVariable ==
    /\ Manipulating
    /\ \E id \in IdsOf(envAst), newKey \in NewKeys :
           /\ envAst' = renameVariableByIdInAST(envAst, id, newKey)
           /\ envCall' = EnvCalled("renameVariableByIdInAST", id, envCall.calls + 1)
    /\ UNCHANGED <<exprVars, envContent, envIds>>

UpdateBeforeComment ==
    /\ Manipulating
    /\ \E id \in IdsOf(envAst), beforeComment \in NewBeforeComments :
           LET r == updateVariableBeforeCommentByIdInAST(envAst, id, beforeComment, envIds)
           IN  /\ envAst' = r.ast
               /\ envIds' = r.ids
               /\ envCall' = EnvCalled("updateVariableBeforeCommentByIdInAST", id,
                                       envCall.calls + 1)
    /\ UNCHANGED <<exprVars, envContent>>

RemoveVariable ==
    /\ Manipulating
    /\ \E id \in IdsOf(envAst) :
           /\ envAst' = removeVariableByIdFromAST(envAst, id)
           /\ envCall' = EnvCalled("removeVariableByIdFromAST", id, envCall.calls + 1)
    /\ UNCHANGED <<exprVars, envContent, envIds>>

NextEnvText == ParseEnv \/ SerializeEnv

SpecEnvText == InitEnvText /\ [][NextEnvText]_vars

NextEnv ==
    \/ ParseEnv
    \/ AddVariable
    \/ UpdateVariable
    \/ RenameVariable
    \/ UpdateBeforeComment
    \/ RemoveVariable

SpecEnv == InitEnv /\ [][NextEnv]_vars


(***************************************************************************)
(* What the properties below read off a state.                             *)
(***************************************************************************)
\* the node of the tree at a path
RECURSIVE NodeAt(_, _)
NodeAt(node, path) ==
    IF path = <<>> THEN node
    ELSE LET k == Head(path)
             rest == Tail(path)
         IN  CASE node.type = "memberAccess" -> NodeAt(node.object, rest)
               [] node.type = "methodCall" ->
                      (IF k = 0 THEN NodeAt(node.object, rest)
                       ELSE NodeAt(node.args[k], rest))
               [] node.type = "arrayLiteral" -> NodeAt(node.elements[k], rest)
               [] node.type = "binaryOp" ->
                      (IF k = 0 THEN NodeAt(node.left, rest)
                       ELSE NodeAt(node.right, rest))
               [] node.type = "unaryOp" -> NodeAt(node.operand, rest)
               [] node.type = "parenthesized" -> NodeAt(node.expression, rest)

\* the paths of the nodes the call evaluator(data) evaluated
Visited ==
    {result.trace[i].path :
         i \in {j \in 1..Len(result.trace) : result.trace[j].ev = "evaluate"}}

\* the methods the call evaluator(data) invoked on values
Invocations ==
    {i \in 1..Len(result.trace) : result.trace[i].ev = "invoke"}

VisitedNode(path) == NodeAt(evaluator.ast, path)

\* what evaluating the node at a path gives on data: the call's own result
\* for the root
Outcome(path) ==
    IF path = <<>> THEN result ELSE evaluateNode(VisitedNode(path), data, path)

Raises(outcome, error) == ~outcome.ok /\ outcome.error = error

AccessDenied(name) == ExpressionSecurityError(<<"Access to", name, "is not allowed">>)

(***************************************************************************)
(* C1: whenever a call of a compiled evaluator on a context reads an       *)
(* identifier that is not an own key of the context (a name of the         *)
(* prototype chain or an ambient global included), the call raises the     *)
(* Security failure naming that identifier: it returns no value.           *)
(***************************************************************************)
C1_IdentifierOutsideContextRaisesSecurity ==
    result # NotCalled =>
        \A p \in Visited :
            LET n == VisitedNode(p)
            IN  (n.type = "identifier" /\ n.name \notin DOMAIN data.props)
                    => Raises(result, AccessDenied(n.name))

\* toString, which every context inherits, was read and refused
C1_Witness ==
    /\ result # NotCalled
    /\ evaluator.ast = Identifier(WtoString)
    /\ WtoString \notin DOMAIN data.props
    /\ Raises(result, AccessDenied(WtoString))

(***************************************************************************)
(* C2: whenever a call evaluates a member access o.p whose object          *)
(* evaluates to an object (a mapping or an array), and p is not among      *)
(* o's own enumerable keys, the call raises the Security failure naming p. *)
(***************************************************************************)
C2_MemberOutsideOwnEnumerableKeysRaisesSecurity ==
    result # NotCalled =>
        \A p \in Visited :
            LET n == VisitedNode(p)
                o == Outcome(Append(p, 0))
            IN  (/\ n.type = "memberAccess"
                 /\ o.ok
                 /\ o.value.t = "object"
                 /\ n.property \notin OwnEnumerableKeys(o.value))
                    => Raises(result, AccessDenied(n.property))

(***************************************************************************)
(* C3: whenever a call evaluates a method call o.m(args) whose receiver    *)
(* evaluates without failure, it raises the Security failure naming m if   *)
(* m is not includes, and a Security failure if m is includes and o is no  *)
(* array; the only method a call ever invokes is includes, on an array.    *)
(***************************************************************************)
C3_OnlyIncludesOnArrayIsInvoked ==
    result # NotCalled =>
        /\ \A p \in Visited :
               LET n == VisitedNode(p)
                   o == Outcome(Append(p, 0))
               IN  (n.type = "methodCall" /\ o.ok) =>
                       /\ n.method # KeyIncludes =>
                              Raises(result, ExpressionSecurityError(
                                         <<"Method", n.method, "is not allowed">>))
                       /\ (n.method = KeyIncludes /\ ~IsArray(o.value)) =>
                              (~result.ok /\ result.error.name = "ExpressionSecurityError")
        /\ \A i \in Invocations :
               /\ result.trace[i].method = KeyIncludes
               /\ IsArray(result.trace[i].receiver)

\* includes was called on a string and refused
C3_Witness ==
    /\ result # NotCalled
    /\ evaluator.ast.type = "methodCall"
    /\ evaluator.ast.method = KeyIncludes
    /\ Outcome(<<0>>).ok
    /\ Outcome(<<0>>).value.t = "string"
    /\ ~result.ok
    /\ result.error.name = "ExpressionSecurityError"
    /\ Invocations = {}

(***************************************************************************)
(* C4: safeEvaluateExpression(source, data) never raises; it returns the   *)
(* value compileExpression(source)(data) returns when compiling and        *)
(* evaluating both succeed, and false when either raises, whatever the     *)
(* failure.                                                                *)
(***************************************************************************)
C4_SafeEvaluateReturnsValueOrFalse ==
    (safeResult # NotCalled /\ evaluator # NotCalled) =>
        /\ safeResult.ok
        /\ ~evaluator.ok => safeResult.value = Bool(FALSE)
        /\ (evaluator.ok /\ result # NotCalled) =>
               safeResult.value = (IF result.ok THEN result.value ELSE Bool(FALSE))

\* the evaluator raised a failure that is neither Syntax nor Security, and
\* safeEvaluateExpression returned false
C4_Witness ==
    /\ safeResult # NotCalled
    /\ result # NotCalled
    /\ ~result.ok
    /\ result.error.name = "TypeError"
    /\ safeResult = [ok |-> TRUE, value |-> Bool(FALSE)]

(***************************************************************************)
(* C5: whenever a call evaluates l && r and l evaluates without failure,   *)
(* r is evaluated if and only if l's value is truthy; when l is falsy the  *)
(* result is l's own value and nothing of r is raised; when l is truthy    *)
(* the result is r's value (or r's failure).                               *)
(***************************************************************************)
C5_AndShortCircuits ==
    result # NotCalled =>
        \A p \in Visited :
            LET n == VisitedNode(p)
                l == Outcome(Append(p, 0))
                r == Outcome(Append(p, 1))
                whole == Outcome(p)
            IN  (n.type = "binaryOp" /\ n.operator = OpAnd /\ l.ok) =>
                    /\ (Append(p, 1) \in Visited) <=> ToBoolean(l.value)
                    /\ ~ToBoolean(l.value) => (whole.ok /\ whole.value = l.value)
                    /\ ToBoolean(l.value) =>
                           (IF r.ok THEN whole.ok /\ whole.value = r.value
                            ELSE Raises(whole, r.error))

\* l is the number 0, r would raise, and the call returned 0
C5_Witness ==
    /\ result # NotCalled
    /\ evaluator.ast.type = "binaryOp"
    /\ evaluator.ast.operator = OpAnd
    /\ Outcome(<<0>>).ok
    /\ Outcome(<<0>>).value = Num(0)
    /\ ~Outcome(<<1>>).ok
    /\ result.ok
    /\ result.value = Num(0)
    /\ <<1>> \notin Visited

(***************************************************************************)
(* C6: whenever a call evaluates l || r and l evaluates without failure,   *)
(* r is evaluated if and only if l's value is falsy; when l is truthy the  *)
(* result is l's own value and nothing of r is raised; when l is falsy the *)
(* result is r's value (or r's failure).                                   *)
(***************************************************************************)
C6_OrShortCircuits ==
    result # NotCalled =>
        \A p \in Visited :
            LET n == VisitedNode(p)
                l == Outcome(Append(p, 0))
                r == Outcome(Append(p, 1))
                whole == Outcome(p)
            IN  (n.type = "binaryOp" /\ n.operator = OpOr /\ l.ok) =>
                    /\ (Append(p, 1) \in Visited) <=> ~ToBoolean(l.value)
                    /\ ToBoolean(l.value) => (whole.ok /\ whole.value = l.value)
                    /\ ~ToBoolean(l.value) =>
                           (IF r.ok THEN whole.ok /\ whole.value = r.value
                            ELSE Raises(whole, r.error))

\* l is the string 's', r would raise, and the call returned 's'
C6_Witness ==
    /\ result # NotCalled
    /\ evaluator.ast.type = "binaryOp"
    /\ evaluator.ast.operator = OpOr
    /\ Outcome(<<0>>).ok
    /\ Outcome(<<0>>).value = Str(<<"s">>)
    /\ ~Outcome(<<1>>).ok
    /\ result.ok
    /\ result.value = Str(<<"s">>)
    /\ <<1>> \notin Visited

C8_EvaluatorRaisesOnlySecurity ==
    result # NotCalled =>
        (result.ok \/ result.error.name = "ExpressionSecurityError")

(***************************************************************************)
(* The grammar of the expression language over a token sequence t, as      *)
(* derivability of the tokens t[i] .. t[j-1] from the nonterminal nt:      *)
(*   Primary    := literal | identifier | '[' ArgList? ']' | '(' Or ')'    *)
(*   Postfix    := Primary ( '.' identifier ( '(' ArgList? ')' )? )*       *)
(*   Unary      := '!' Unary | Postfix                                     *)
(*   Comparison := Unary ( comparison-operator Unary )*                    *)
(*   And        := Comparison ( '&&' Comparison )*                         *)
(*   Or         := And ( '||' And )*                                       *)
(*   ArgList    := Or ( ',' Or )*                                          *)
(***************************************************************************)
ComparisonOperators ==
    {<<"=","=","=">>, <<"!","=","=">>, <<"=","=">>, <<"!","=">>,
     <<">">>, <<"<">>, <<">","=">>, <<"<","=">>}

RECURSIVE Derives(_, _, _, _)
Derives(nt, t, i, j) ==
    CASE nt = "Primary" ->
             \/ j = i + 1
                  /\ t[i].type \in {"string", "number", "boolean", "null", "identifier"}
             \/ j >= i + 2 /\ t[i].type = "lbracket" /\ t[j - 1].type = "rbracket"
                  /\ (j = i + 2 \/ Derives("ArgList", t, i + 1, j - 1))
             \/ j >= i + 3 /\ t[i].type = "lparen" /\ t[j - 1].type = "rparen"
                  /\ Derives("Or", t, i + 1, j - 1)
      [] nt = "Postfix" ->
             \/ Derives("Primary", t, i, j)
             \/ \E k \in (i + 1)..(j - 2) :
                    /\ t[k].type = "dot"
                    /\ t[k + 1].type = "identifier"
                    /\ \/ j = k + 2
                       \/ j >= k + 4 /\ t[k + 2].type = "lparen"
                            /\ t[j - 1].type = "rparen"
                            /\ (j = k + 4 \/ Derives("ArgList", t, k + 3, j - 1))
                    /\ Derives("Postfix", t, i, k)
      [] nt = "Unary" ->
             \/ j > i + 1 /\ IsOperator(t[i], <<"!">>) /\ Derives("Unary", t, i + 1, j)
             \/ Derives("Postfix", t, i, j)
      [] nt = "Comparison" ->
             \/ Derives("Unary", t, i, j)
             \/ \E k \in (i + 1)..(j - 2) :
                    /\ t[k].type = "operator"
                    /\ t[k].value \in ComparisonOperators
                    /\ Derives("Unary", t, k + 1, j)
                    /\ Derives("Comparison", t, i, k)
      [] nt = "And" ->
             \/ Derives("Comparison", t, i, j)
             \/ \E k \in (i + 1)..(j - 2) :
                    /\ IsOperator(t[k], <<"&","&">>)
                    /\ Derives("Comparison", t, k + 1, j)
                    /\ Derives("And", t, i, k)
      [] nt = "Or" ->
             \/ Derives("And", t, i, j)
             \/ \E k \in (i + 1)..(j - 2) :
                    /\ IsOperator(t[k], <<"|","|">>)
                    /\ Derives("And", t, k + 1, j)
                    /\ Derives("Or", t, i, k)
      [] nt = "ArgList" ->
             \/ Derives("Or", t, i, j)
             \/ \E k \in (i + 1)..(j - 2) :
                    /\ t[k].type = "comma"
                    /\ Derives("Or", t, k + 1, j)
                    /\ Derives("ArgList", t, i, k)

\* the string lexes, and its tokens before the end-of-input token derive
\* from Expression
IsSentence(e) ==
    LET lexed == tokenize(e)
    IN  /\ lexed.ok
        /\ Len(lexed.tokens) >= 2
        /\ Derives("Or", lexed.tokens, 1, Len(lexed.tokens))

(***************************************************************************)
(* C9: compileExpression(source) raises nothing but a Syntax failure, and  *)
(* raises it exactly when source is not a sentence of the grammar; a       *)
(* Security failure comes only from a call of the evaluator it returned.   *)
(***************************************************************************)
C9_CompileRaisesSyntaxExactlyOffGrammar ==
    evaluator # NotCalled =>
        /\ evaluator.ok \/ evaluator.error.name = "ExpressionSyntaxError"
        /\ evaluator.ok <=> IsSentence(source)

\* a member access compiled, and the call on the empty context raised the
\* Security failure naming the identifier
C9_Witness ==
    /\ evaluator # NotCalled
    /\ evaluator.ok
    /\ evaluator.ast.type = "memberAccess"
    /\ result # NotCalled
    /\ Raises(result, AccessDenied(Wa))

(***************************************************************************)
(* C10: validateExpressionSyntax(source) never raises; it returns null     *)
(* exactly when compileExpression(source) raises no Syntax failure, and    *)
(* otherwise the message of that Syntax failure.                           *)
(***************************************************************************)
C10_ValidateAgreesWithCompile ==
    (validation # NotCalled /\ evaluator # NotCalled) =>
        /\ validation.ok
        /\ validation.isNull <=>
               ~(~evaluator.ok /\ evaluator.error.name = "ExpressionSyntaxError")
        /\ ~validation.isNull => validation.message = evaluator.error.message

\* a missing identifier after a dot: both report what was expected and found
C10_Witness ==
    /\ validation # NotCalled
    /\ evaluator # NotCalled
    /\ ~evaluator.ok
    /\ ~validation.isNull
    /\ validation.message = <<"Expected", "identifier", "lparen", <<"(">>>>
    /\ evaluator.error = ExpressionSyntaxError(validation.message)

\* what the k-th entry of showWhen gives on data
EntryIsTruthy(k) ==
    LET r == safeEvaluateExpression(showWhen.list[k], data)
    IN  r.ok /\ ToBoolean(r.value)

EntryFails(k) ==
    LET compiled == compileExpression(showWhen.list[k])
    IN  ~compiled.ok \/ ~Evaluate(compiled.ast, data).ok

(***************************************************************************)
(* C11: evaluateShowWhen on a non-empty list never raises; it returns true *)
(* exactly when safeEvaluateExpression gives a truthy value for at least   *)
(* one entry, and false otherwise.  The entries are evaluated in list      *)
(* order up to the first truthy one: an entry that fails to compile or to  *)
(* evaluate counts as false and the entries after it are still evaluated.  *)
(***************************************************************************)
C11_ShowWhenIsOrOverSafeEvaluate ==
    (shown # NotCalled /\ showWhen.present /\ showWhen.list # <<>>) =>
        LET n == Len(showWhen.list)
            truthy == {k \in 1..n : EntryIsTruthy(k)}
            last == IF truthy = {} THEN n
                    ELSE CHOOSE k \in truthy : \A j \in truthy : k <= j
        IN  /\ shown.ok
            /\ shown.value = Bool(truthy # {})
            /\ shown.evaluated = [k \in 1..last |-> k]
            /\ \A k \in 1..n : EntryFails(k) => ~EntryIsTruthy(k)

\* the first entry fails to compile, the second is refused by the sandbox,
\* and the third is truthy: the result is true
C11_Witness ==
    /\ shown # NotCalled
    /\ showWhen.present
    /\ Len(showWhen.list) = 3
    /\ ~compileExpression(showWhen.list[1]).ok
    /\ compileExpression(showWhen.list[2]).ok
    /\ Raises(Evaluate(compileExpression(showWhen.list[2]).ast, data),
              AccessDenied(showWhen.list[2]))
    /\ EntryIsTruthy(3)
    /\ shown.ok
    /\ shown.value = Bool(TRUE)
    /\ shown.evaluated = <<1, 2, 3>>

(***************************************************************************)
(* C12: evaluateShowWhen on the empty list and on an absent list returns   *)
(* true, whatever the context.                                             *)
(***************************************************************************)
C12_EmptyOrAbsentShowWhenIsTrue ==
    (shown # NotCalled /\ (~showWhen.present \/ showWhen.list = <<>>)) =>
        (shown.ok /\ shown.value = Bool(TRUE))

\* the list was absent and the result is true
C12_Witness ==
    /\ shown # NotCalled
    /\ ~showWhen.present
    /\ shown.ok
    /\ shown.value = Bool(TRUE)

IsNaN(v) == v.t = "number" /\ v.nan

(***************************************************************************)
(* C15 as stated: whenever a call evaluates a.includes(x) on an array a,   *)
(* the result is true if and only if some element v of a satisfies         *)
(* v === x under the evaluator's own strict equality.                      *)
(***************************************************************************)
C15_IncludesAgreesWithStrictEquals ==
    result # NotCalled =>
        \A p \in Visited :
            LET n == VisitedNode(p)
                a == Outcome(Append(p, 0))
                x == Outcome(Append(p, 1))
                whole == Outcome(p)
            IN  (/\ n.type = "methodCall"
                 /\ n.method = KeyIncludes
                 /\ Len(n.args) >= 1
                 /\ a.ok /\ IsArray(a.value)
                 /\ x.ok)
                    => /\ whole.ok
                       /\ whole.value =
                              Bool(\E i \in 1..Len(a.value.elems) :
                                       StrictEquals(a.value.elems[i], x.value))

(***************************************************************************)
(* C15 as amended: whenever a call evaluates a.includes(x) on an array a,  *)
(* the result is true if and only if some element v of a satisfies         *)
(* v === x, or x is NaN and some element of a is NaN.                      *)
(***************************************************************************)
C15_IncludesAgreesWithStrictEqualsButOnNaN ==
    result # NotCalled =>
        \A p \in Visited :
            LET n == VisitedNode(p)
                a == Outcome(Append(p, 0))
                x == Outcome(Append(p, 1))
                whole == Outcome(p)
            IN  (/\ n.type = "methodCall"
                 /\ n.method = KeyIncludes
                 /\ Len(n.args) >= 1
                 /\ a.ok /\ IsArray(a.value)
                 /\ x.ok)
                    => /\ whole.ok
                       /\ whole.value =
                              Bool(\E i \in 1..Len(a.value.elems) :
                                       \/ StrictEquals(a.value.elems[i], x.value)
                                       \/ IsNaN(a.value.elems[i]) /\ IsNaN(x.value))

\* the literal 1.2.3 is NaN, and the array that holds it includes it
C15_Witness ==
    /\ result # NotCalled
    /\ evaluator.ast.type = "methodCall"
    /\ evaluator.ast.method = KeyIncludes
    /\ Outcome(<<0>>).ok
    /\ Outcome(<<0>>).value.elems = <<NaN>>
    /\ Outcome(<<1>>).ok
    /\ Outcome(<<1>>).value = NaN
    /\ ~StrictEquals(NaN, Outcome(<<1>>).value)
    /\ result.ok
    /\ result.value = Bool(TRUE)

(***************************************************************************)
(* C16: whenever a call evaluates a.includes(args) on an array a, whatever *)
(* the number of arguments, it evaluates exactly one argument expression,  *)
(* the first, and returns whether a includes that argument's value.        *)
(***************************************************************************)
C16_IncludesEvaluatesExactlyOneArgument ==
    result # NotCalled =>
        \A p \in Visited :
            LET n == VisitedNode(p)
                a == Outcome(Append(p, 0))
                x == Outcome(Append(p, 1))
                whole == Outcome(p)
            IN  (/\ n.type = "methodCall"
                 /\ n.method = KeyIncludes
                 /\ a.ok /\ IsArray(a.value))
                    => /\ {k \in 1..(MaxArgs + 1) : Append(p, k) \in Visited} = {1}
                       /\ x.ok => /\ whole.ok
                                  /\ whole.value =
                                         Bool(ArrayIncludes(a.value.elems, x.value))

\* the comparison of two numbers by a relational operator: false when
\* either is NaN
NumericOrder(operator, x, y) ==
    CASE operator = <<"<">> -> NumLt(x, y)
      [] operator = <<">">> -> NumLt(y, x)
      [] operator = <<"<","=">> -> NumLt(x, y) \/ NumEq(x, y)
      [] operator = <<">","=">> -> NumLt(y, x) \/ NumEq(x, y)

(***************************************************************************)
(* C17: whenever a call evaluates l > r, l < r, l >= r or l <= r and both  *)
(* operands evaluate without failure, the result is the comparison of the  *)
(* numeric coercions of the two values; two numeric strings are ordered by *)
(* their numeric values.                                                   *)
(***************************************************************************)
C17_RelationalComparesNumericCoercions ==
    result # NotCalled =>
        \A p \in Visited :
            LET n == VisitedNode(p)
                l == Outcome(Append(p, 0))
                r == Outcome(Append(p, 1))
                whole == Outcome(p)
            IN  (/\ n.type = "binaryOp"
                 /\ n.operator \in {<<"<">>, <<">">>, <<"<","=">>, <<">","=">>}
                 /\ l.ok /\ r.ok)
                    => /\ whole.ok
                       /\ whole.value =
                              Bool(NumericOrder(n.operator, ToNumber(l.value),
                                                ToNumber(r.value)))

\* the loose equality of two values among numbers, strings, booleans, null
\* and undefined, as the table of the conventional rules gives it: null and
\* undefined are equal to each other and to nothing else, a boolean stands
\* for 1 or 0, two strings are equal when they are the same string, and
\* otherwise the numeric values are compared
NumericValue(v) ==
    CASE v.t = "boolean" -> (IF v.b THEN Num(1) ELSE Num(0))
      [] v.t = "string" -> StringToNumber(v.s)
      [] v.t = "number" -> v

ConventionalLooseEquality(x, y) ==
    IF x.t \in {"null", "undefined"} \/ y.t \in {"null", "undefined"}
    THEN x.t \in {"null", "undefined"} /\ y.t \in {"null", "undefined"}
    ELSE IF x.t = "string" /\ y.t = "string" THEN x.s = y.s
    ELSE NumEq(NumericValue(x), NumericValue(y))

(***************************************************************************)
(* C18: whenever a call evaluates l == r or l != r on two values among     *)
(* numbers, strings, booleans, null and undefined, l == r is the           *)
(* conventional loose equality of the two values (a number and a string    *)
(* are equal exactly when the string's numeric value is the number, null   *)
(* is equal to null and undefined only, a boolean compares by its numeric  *)
(* value), and l != r is its negation.                                     *)
(***************************************************************************)
C18_LooseEqualityIsConventional ==
    result # NotCalled =>
        \A p \in Visited :
            LET n == VisitedNode(p)
                l == Outcome(Append(p, 0))
                r == Outcome(Append(p, 1))
                whole == Outcome(p)
                plain == {"number", "string", "boolean", "null", "undefined"}
            IN  (/\ n.type = "binaryOp"
                 /\ n.operator \in {<<"=","=">>, <<"!","=">>}
                 /\ l.ok /\ r.ok
                 /\ l.value.t \in plain /\ r.value.t \in plain)
                    => /\ whole.ok
                       /\ whole.value =
                              Bool((n.operator = <<"=","=">>)
                                       <=> ConventionalLooseEquality(l.value, r.value))

\* the number 1 and the string '1' are loosely equal
C18_Witness ==
    /\ result # NotCalled
    /\ evaluator.ast.type = "binaryOp"
    /\ evaluator.ast.operator = <<"=","=">>
    /\ Outcome(<<0>>).ok
    /\ Outcome(<<0>>).value = Num(1)
    /\ Outcome(<<1>>).ok
    /\ Outcome(<<1>>).value = Str(<<"1">>)
    /\ result.ok
    /\ result.value = Bool(TRUE)

\* the token t[k] can follow a complete expression t[1] .. t[k-1] inside a
\* longer one: a dot, a binary operator, or the parenthesis of a method call
ContinuesExpression(t, k) ==
    \/ t[k].type = "dot"
    \/ t[k].type = "operator" /\ t[k].value # <<"!">>
    \/ /\ t[k].type = "lparen"
       /\ k >= 4
       /\ t[k - 1].type = "identifier"
       /\ t[k - 2].type = "dot"

UnexpectedToken(token) == ExpressionSyntaxError(<<"Unexpected token", token.value>>)

ExpectedToken(kind, token) ==
    ExpressionSyntaxError(<<"Expected", kind, token.type, token.value>>)

(***************************************************************************)
(* C19: compileExpression(source) returns exactly when the tokens of       *)
(* source derive from Expression followed by end-of-input, and raises a    *)
(* Syntax failure otherwise.  When a token that cannot continue an         *)
(* expression follows a complete expression (such as the parenthesis of a  *)
(* call on a bare identifier, or the bracket of an index access) the       *)
(* failure names that token; when a dot is followed by no identifier, or a *)
(* parenthesized expression by no closing parenthesis, the failure names   *)
(* the kind expected and the token found.                                  *)
(***************************************************************************)
C19_CompileAcceptsExactlyTheGrammar ==
    evaluator # NotCalled =>
        LET lexed == tokenize(source)
            t == lexed.tokens
        IN  /\ evaluator.ok <=> IsSentence(source)
            /\ ~evaluator.ok => evaluator.error.name = "ExpressionSyntaxError"
            /\ lexed.ok =>
                   \A k \in 2..Len(t) :
                       /\ (/\ Derives("Or", t, 1, k)
                           /\ t[k].type # "eof"
                           /\ ~ContinuesExpression(t, k))
                              => Raises(evaluator, UnexpectedToken(t[k]))
                       /\ (/\ Derives("Or", t, 1, k)
                           /\ t[k].type = "dot"
                           /\ t[k + 1].type # "identifier")
                              => Raises(evaluator, ExpectedToken("identifier", t[k + 1]))
                       /\ (/\ k >= 3
                           /\ t[1].type = "lparen"
                           /\ Derives("Or", t, 2, k)
                           /\ t[k].type # "rparen"
                           /\ ~ContinuesExpression(t, k))
                              => Raises(evaluator, ExpectedToken("rparen", t[k]))

\* an index access a[1]: the failure names the bracket
C19_Witness ==
    /\ evaluator # NotCalled
    /\ source = <<"a","[","1","]">>
    /\ ~IsSentence(source)
    /\ Raises(evaluator, ExpressionSyntaxError(<<"Unexpected token", <<"[">>>>))

\* the node an atom stands for
AtomNode(x) ==
    CASE x = Wa -> Identifier(Wa)
      [] x = Wb -> Identifier(Wb)
      [] x = Ws -> Literal(Str(<<"s">>))
      [] x = KwNull -> Literal(Null)
      [] x = KwTrue -> Literal(Bool(TRUE))

\* the tree the stated precedence gives each expression string of two
\* operators
GroupedTree(text) ==
    {BinaryOp(OpOr, AtomNode(x), BinaryOp(OpAnd, AtomNode(y), AtomNode(z))) :
         <<x, y, z>> \in {w \in Atoms \X Atoms \X Atoms :
                             text = Infix(w[1], OpOr, Infix(w[2], OpAnd, w[3]))}}
    \cup {BinaryOp(OpOr, BinaryOp(OpAnd, AtomNode(x), AtomNode(y)), AtomNode(z)) :
         <<x, y, z>> \in {w \in Atoms \X Atoms \X Atoms :
                             text = Infix(Infix(w[1], OpAnd, w[2]), OpOr, w[3])}}
    \cup {BinaryOp(OpAnd, AtomNode(x), BinaryOp(OpEq, AtomNode(y), AtomNode(z))) :
         <<x, y, z>> \in {w \in Atoms \X Atoms \X Atoms :
                             text = Infix(w[1], OpAnd, Infix(w[2], OpEq, w[3]))}}
    \cup {BinaryOp(OpAnd, BinaryOp(OpEq, AtomNode(x), AtomNode(y)), AtomNode(z)) :
         <<x, y, z>> \in {w \in Atoms \X Atoms \X Atoms :
                             text = Infix(Infix(w[1], OpEq, w[2]), OpAnd, w[3])}}
    \cup {BinaryOp(OpEq, UnaryOp(OpNot, AtomNode(x)), AtomNode(y)) :
         <<x, y>> \in {w \in Atoms \X Atoms : text = Infix(OpNot \o w[1], OpEq, w[2])}}
    \cup {UnaryOp(OpNot, MemberAccess(AtomNode(x), Wb)) :
         x \in {w \in Atoms : text = OpNot \o Member(w, Wb)}}
    \cup {BinaryOp(OpAnd,
                   Parenthesized(BinaryOp(OpOr, AtomNode(x), AtomNode(y))),
                   AtomNode(z)) :
         <<x, y, z>> \in {w \in Atoms \X Atoms \X Atoms :
                             text = Infix(Parens(Infix(w[1], OpOr, w[2])), OpAnd, w[3])}}
    \cup {UnaryOp(OpNot, Parenthesized(BinaryOp(OpEq, AtomNode(x), AtomNode(y)))) :
         <<x, y>> \in {w \in Atoms \X Atoms :
                          text = OpNot \o Parens(Infix(w[1], OpEq, w[2]))}}

(***************************************************************************)
(* C20: the tree compileExpression builds groups postfix access tightest,  *)
(* then '!', then the comparison operators, then '&&', then '||':          *)
(* x || y && z is x || (y && z), x && y === z is x && (y === z),           *)
(* !x === y is (!x) === y and !x.b is !(x.b); parentheses override the     *)
(* grouping, and a parenthesized expression evaluates to what its inner    *)
(* expression evaluates to.                                                *)
(***************************************************************************)
C20_ParserGroupsByPrecedence ==
    /\ (evaluator # NotCalled /\ source \in PrecedenceSources) =>
           (evaluator.ok /\ GroupedTree(source) = {evaluator.ast})
    /\ result # NotCalled =>
           \A p \in Visited :
               VisitedNode(p).type = "parenthesized" =>
                   LET inner == Outcome(Append(p, 0))
                       whole == Outcome(p)
                   IN  /\ whole.ok <=> inner.ok
                       /\ whole.ok => whole.value = inner.value
                       /\ ~whole.ok => whole.error = inner.error

\* a || b && 's' on the context where a is 0: the tree is a || (b && 's'),
\* and the call returned the value of b && 's'
C20_Witness ==
    /\ result # NotCalled
    /\ source = Infix(Wa, OpOr, Infix(Wb, OpAnd, Ws))
    /\ evaluator.ast =
           BinaryOp(OpOr, Identifier(Wa),
                    BinaryOp(OpAnd, Identifier(Wb), Literal(Str(<<"s">>))))
    /\ Wa \in DOMAIN data.props
    /\ data.props[Wa] = Num(0)
    /\ result.ok
    /\ result.value = Null

\* the words of a text, which single spaces separate
RECURSIVE Words(_, _, _)
Words(text, k, word) ==
    IF k > Len(text) THEN <<word>>
    ELSE IF text[k] = " " THEN <<word>> \o Words(text, k + 1, <<>>)
    ELSE Words(text, k + 1, Append(word, text[k]))

\* the tree that grouping from the left gives a chain x op1 y op2 z
LeftChain(text) ==
    LET w == Words(text, 1, <<>>)
    IN  BinaryOp(w[4], BinaryOp(w[2], AtomNode(w[1]), AtomNode(w[3])), AtomNode(w[5]))

(***************************************************************************)
(* C21: a run of binary operators of one precedence level groups from the  *)
(* left: compileExpression accepts x op1 y op2 z and builds the tree       *)
(* (x op1 y) op2 z, for '||', for '&&' and for the comparison operators.   *)
(* A chained comparison is accepted, and when both of its operands         *)
(* evaluate, the value of the first comparison is a boolean and the call   *)
(* returns the second comparison of that boolean with the third operand.   *)
(***************************************************************************)
C21_SameLevelOperatorsGroupFromTheLeft ==
    /\ (evaluator # NotCalled /\ source \in ChainSources) =>
           (evaluator.ok /\ evaluator.ast = LeftChain(source))
    /\ (/\ result # NotCalled
        /\ source \in ChainSources
        /\ evaluator.ast.operator \in compOps) =>
           LET first == Outcome(<<0>>)
               third == Outcome(<<1>>)
           IN  (first.ok /\ third.ok) =>
                   /\ evaluator.ast.left.operator \in compOps
                   /\ first.value.t = "boolean"
                   /\ result.ok
                   /\ result.value =
                          Compare(evaluator.ast.operator, first.value, third.value).value

\* 's' === 's' === true is ('s' === 's') === true, which is true, while
\* 's' === ('s' === true) would be false
C21_Witness ==
    /\ result # NotCalled
    /\ source = Infix(Infix(Ws, OpEq, Ws), OpEq, KwTrue)
    /\ evaluator.ast =
           BinaryOp(OpEq,
                    BinaryOp(OpEq, Literal(Str(<<"s">>)), Literal(Str(<<"s">>))),
                    Literal(Bool(TRUE)))
    /\ result.ok
    /\ result.value = Bool(TRUE)


\* the operators of the language
OperatorLexemes ==
    {<<"=","=","=">>, <<"!","=","=">>, <<"=","=">>, <<"!","=">>, <<">","=">>,
     <<"<","=">>, <<"&","&">>, <<"|","|">>, <<"!">>, <<">">>, <<"<">>}

\* the operators that match the text at index i
OperatorsMatching(e, i) ==
    {op \in OperatorLexemes :
         i + Len(op) - 1 <= Len(e) /\ SubSeq(e, i, i + Len(op) - 1) = op}

\* the characters that begin a token other than an operator
BeginsOtherToken(ch) ==
    ch \in Lower \cup Upper \cup Digits
               \cup {"_", "$", "'", "\"", ".", "(", ")", "[", "]", ","}

(***************************************************************************)
(* C24: at every index where some operator matches, the iteration of the   *)
(* lexer pushes one operator token, the longest operator that matches      *)
(* there, and moves past it ('!==' is one token, never '!' and then '==').  *)
(* At a character that is neither white space nor the beginning of a       *)
(* token (a lone '=', '&' or '|', the '*' of '**') the lexer raises the    *)
(* Syntax failure that names that character and its offset.                *)
(***************************************************************************)
C24_LexerTakesLongestOperator ==
    [][(IsLexing(lexing) /\ lexing' # lexing /\ lexing.at <= Len(source)) =>
           LET i == lexing.at
               matching == OperatorsMatching(source, i)
           IN  /\ matching # {} =>
                      \E op \in matching :
                          /\ \A o \in matching : Len(o) <= Len(op)
                          /\ lexing' = Lexing(i + Len(op),
                                              Append(lexing.pushed,
                                                     Token("operator", op)))
               /\ (/\ matching = {}
                   /\ ~IsSpace(source[i])
                   /\ ~BeginsOtherToken(source[i])) =>
                      lexing' = Throw(ExpressionSyntaxError(
                                    <<"Unexpected character", source[i], i - 1>>))]_vars

\* !==a gives the operator !== and the identifier a
C24_Witness ==
    /\ source = <<"!","=","=","a">>
    /\ ~IsLexing(lexing)
    /\ lexing.ok
    /\ lexing.tokens =
           <<Token("operator", <<"!","=","=">>), Token("identifier", <<"a">>),
             Token("eof", <<>>)>>


\* inside a literal whose first character is at index start, the character
\* at index k is escaped: a backslash that is not itself escaped precedes it
RECURSIVE Escaped(_, _, _)
Escaped(e, start, k) ==
    k > start /\ e[k - 1] = "\\" /\ ~Escaped(e, start, k - 1)

\* the index of the closing quote of the literal: the first unescaped
\* occurrence of the quote from start on, or Len(e) + 1 when there is none
ClosingQuote(e, start, quote) ==
    LET closing == {j \in start..Len(e) : e[j] = quote /\ ~Escaped(e, start, j)}
    IN  IF closing = {} THEN Len(e) + 1
        ELSE CHOOSE j \in closing : \A k \in closing : j <= k

\* the characters from k up to end - 1 without the backslashes that escape
RECURSIVE Unescape(_, _, _, _)
Unescape(e, start, k, end) ==
    IF k >= end THEN <<>>
    ELSE IF e[k] = "\\" /\ ~Escaped(e, start, k) THEN Unescape(e, start, k + 1, end)
    ELSE <<e[k]>> \o Unescape(e, start, k + 1, end)

(***************************************************************************)
(* C25: at a quote character the iteration of the lexer pushes one string  *)
(* token and never raises.  The token's value is the characters between    *)
(* the opening quote and the first unescaped occurrence of the same quote  *)
(* after it, with each escaping backslash dropped and the character after  *)
(* it kept as it is (n after a backslash is n), and the lexer goes on      *)
(* after the closing quote.  When no closing quote follows, the value is   *)
(* the characters up to the end of the input, read the same way, also      *)
(* when the last character is a backslash, and the lexer is at the end.    *)
(***************************************************************************)
C25_StringLiteralReadsToClosingQuote ==
    [][(/\ IsLexing(lexing)
        /\ lexing' # lexing
        /\ lexing.at <= Len(source)
        /\ source[lexing.at] \in {"'", "\""}) =>
           LET start == lexing.at + 1
               closing == ClosingQuote(source, start, source[lexing.at])
           IN  /\ IsLexing(lexing')
               /\ lexing'.pushed =
                      Append(lexing.pushed,
                             Token("string", Unescape(source, start, start, closing)))
               /\ closing <= Len(source) => lexing'.at = closing + 1
               /\ closing > Len(source) => lexing'.at > Len(source)]_vars

\* the text quote, backslash, quote, s: the escaped quote does not end the
\* literal, which runs to the end of the input
C25_Witness ==
    /\ source = <<"'", "\\", "'", "s">>
    /\ ~IsLexing(lexing)
    /\ lexing.ok
    /\ lexing.tokens = <<Token("string", <<"'", "s">>), Token("eof", <<>>)>>


\* the indices of the end-of-input tokens of a token sequence
EofIndices(t) == {k \in 1..Len(t) : t[k].type = "eof"}

Children(node) ==
    CASE node.type = "memberAccess" -> <<node.object>>
      [] node.type = "methodCall" -> <<node.object>> \o node.args
      [] node.type = "arrayLiteral" -> node.elements
      [] node.type = "binaryOp" -> <<node.left, node.right>>
      [] node.type = "unaryOp" -> <<node.operand>>
      [] node.type = "parenthesized" -> <<node.expression>>
      [] OTHER -> <<>>

\* the number of nodes of the trees in a sequence
RECURSIVE NodeCount(_)
NodeCount(nodes) ==
    IF nodes = <<>> THEN 0
    ELSE 1 + NodeCount(Children(Head(nodes)) \o Tail(nodes))

\* tokenize(source) has returned or raised
Lexed == ~IsLexing(lexing)

\* compileExpression(source) has returned an evaluator
Compiled == IF evaluator = NotCalled THEN FALSE ELSE evaluator.ok

\* the call of the evaluator has returned or raised
Called == result # NotCalled

ListedFalsy(v) == v \in {Bool(FALSE), Num(0), Str(<<>>), Null, Undefined}

\* the falsy set with NaN
ListedFalsyOrNaN(v) == ListedFalsy(v) \/ v = NaN

\* '!', '&&' and '||' all follow the falsy set Falsy on the values the call
\* met: !v is the boolean Falsy(v), !!v the boolean ~Falsy(v), v && x is v
\* with x not evaluated exactly when Falsy(v), and v || x is x exactly when
\* Falsy(v)
TruthinessRule(Falsy(_)) ==
    result # NotCalled =>
        \A p \in Visited :
            LET n == VisitedNode(p)
                v == Outcome(Append(p, 0))
                x == Outcome(Append(p, 1))
                whole == Outcome(p)
            IN  /\ (n.type = "unaryOp" /\ v.ok) =>
                       (whole.ok /\ whole.value = Bool(Falsy(v.value)))
                /\ (n.type = "unaryOp" /\ n.operand.type = "unaryOp" /\ v.ok) =>
                       LET inner == Outcome(Append(Append(p, 0), 0))
                       IN  whole.value = Bool(~Falsy(inner.value))
                /\ (n.type = "binaryOp" /\ n.operator = OpAnd /\ v.ok) =>
                       (Falsy(v.value) <=>
                            (/\ Append(p, 1) \notin Visited
                             /\ whole.ok
                             /\ whole.value = v.value))
                /\ (n.type = "binaryOp" /\ n.operator = OpOr /\ v.ok) =>
                       (Falsy(v.value) <=>
                            (/\ Append(p, 1) \in Visited
                             /\ whole.ok = x.ok
                             /\ whole.ok => whole.value = x.value))

(***************************************************************************)
(* C27 as stated: '!', '&&' and '||' share one truthiness rule whose falsy *)
(* set is false, 0, the empty string, null and undefined: !v is true       *)
(* exactly when v is in that set, v && x returns v exactly then, v || x    *)
(* returns x exactly then, !v is a boolean and !!v is the truthiness of v. *)
(***************************************************************************)
C27_TruthinessFollowsListedFalsySet == TruthinessRule(ListedFalsy)

(***************************************************************************)
(* C27 amended: the same rule with the falsy set false, 0, NaN, the empty  *)
(* string, null and undefined: every other value (the string '0', an empty *)
(* array, an object) is truthy.                                            *)
(***************************************************************************)
C27_TruthinessFollowsFalsySetWithNaN == TruthinessRule(ListedFalsyOrNaN)

\* !1.2.3 is true: the literal is NaN, which is falsy
C27_Witness ==
    /\ result # NotCalled
    /\ source = OpNot \o <<"1",".","2",".","3">>
    /\ Outcome(<<0>>).ok
    /\ Outcome(<<0>>).value = NaN
    /\ result.ok
    /\ result.value = Bool(TRUE)


\* in the order of the source text the node at path p comes before the node
\* at path q: p is a proper prefix of q (the node holds the other), or at
\* the first index where they differ p goes to an earlier child (the
\* receiver or left operand is child 0, the right operand child 1, the k-th
\* element or argument child k)
RECURSIVE PathBefore(_, _)
PathBefore(p, q) ==
    IF q = <<>> THEN FALSE
    ELSE IF p = <<>> THEN TRUE
    ELSE IF Head(p) # Head(q) THEN Head(p) < Head(q)
    ELSE PathBefore(Tail(p), Tail(q))

\* the indices of the children of a node
ChildIndices(node) ==
    CASE node.type \in {"memberAccess", "unaryOp", "parenthesized"} -> {0}
      [] node.type = "methodCall" -> 0..Len(node.args)
      [] node.type = "arrayLiteral" -> 1..Len(node.elements)
      [] node.type = "binaryOp" -> {0, 1}
      [] OTHER -> {}

(***************************************************************************)
(* C28: one call evaluates sub-expressions from left to right and stops at *)
(* the first failure.  The nodes are evaluated in the order of the source  *)
(* text; an array literal's elements in order; a comparison evaluates its  *)
(* right operand whenever its left operand gave a value; a member access   *)
(* or method call evaluates its receiver before anything is checked about  *)
(* the property or method name.  When a sub-expression fails, nothing      *)
(* after it is evaluated and the expression that holds it raises the same  *)
(* failure: a.b on a context without a names a, not b.                     *)
(***************************************************************************)
C28_EvaluationIsLeftToRightToFirstFailure ==
    result # NotCalled =>
        /\ \A i, j \in 1..Len(result.trace) :
               (/\ i < j
                /\ result.trace[i].ev = "evaluate"
                /\ result.trace[j].ev = "evaluate") =>
                   PathBefore(result.trace[i].path, result.trace[j].path)
        /\ \A p \in Visited :
               LET n == VisitedNode(p)
               IN  /\ n.type \in {"memberAccess", "methodCall"} =>
                          Append(p, 0) \in Visited
                   /\ (/\ n.type = "binaryOp"
                       /\ n.operator \in compOps
                       /\ Outcome(Append(p, 0)).ok) =>
                          Append(p, 1) \in Visited
                   /\ n.type = "arrayLiteral" =>
                          \A k \in 1..Len(n.elements) :
                              Append(p, k) \in Visited <=>
                                  \/ k = 1
                                  \/ /\ Append(p, k - 1) \in Visited
                                     /\ Outcome(Append(p, k - 1)).ok
                   /\ \A k \in ChildIndices(n) :
                          (Append(p, k) \in Visited /\ ~Outcome(Append(p, k)).ok) =>
                              /\ Raises(Outcome(p), Outcome(Append(p, k)).error)
                              /\ \A later \in ChildIndices(n) :
                                     later > k => Append(p, later) \notin Visited

\* the method call a.b(b) on the empty context: the receiver is evaluated
\* and fails before the method name b would be refused
C28_Witness ==
    /\ result # NotCalled
    /\ source = Call(Wa, Wb, Wb)
    /\ data.props = <<>>
    /\ Visited = {<<>>, <<0>>}
    /\ Raises(result, AccessDenied(Wa))


(***************************************************************************)
(* C22.  For every .env text s, serializeEnvAST(parseEnvAST(s)) is s        *)
(* exactly: comments, empty lines, quoting and line structure come back.   *)
(***************************************************************************)
C22_SerializedParseIsTheSource ==
    (envCall # NotCalled /\ envCall.op = "serializeEnvAST" /\ envCall.mode = "all") =>
        envCall.text = envContent



(***************************************************************************)
(* C23.  On an AST that parseEnvAST returned and the id of a variable node *)
(* of it, removeVariableByIdFromAST returns the nodes of that AST in their *)
(* order without that variable node and without its before-comment node,   *)
(* and nothing else missing; the variables without that node's key, every  *)
(* other key with its value; and the AST that was passed is still the one  *)
(* the parser returned.                                                    *)
(***************************************************************************)
\* the index of the variable node with this id
VariableIndex(ast, id) ==
    CHOOSE k \in DOMAIN ast.nodes :
        isVariableAssignmentNode(ast.nodes[k]) /\ ast.nodes[k].id = id

\* the indices that stay when the variable at index goes with its before-comment
Staying(ast, index) ==
    {k \in DOMAIN ast.nodes :
        /\ k # index
        /\ ~(isCommentNode(ast.nodes[k]) /\ ast.nodes[k] = ast.nodes[index].beforeComment)}

RemovedFromParsed ==
    /\ envCall # NotCalled
    /\ envCall.op = "removeVariableByIdFromAST"
    /\ envCall.calls = 1
    /\ HasVariable(envCall.input, envCall.id)

C23_RemoveTakesOutVariableAndBeforeComment ==
    RemovedFromParsed =>
        LET given == envCall.input
            index == VariableIndex(given, envCall.id)
            key == given.nodes[index].key
            staying == Staying(given, index)
        IN  /\ Len(envAst.nodes) = Cardinality(staying)
            /\ \A k \in staying :
                   envAst.nodes[Cardinality({j \in staying : j <= k})] = given.nodes[k]
            /\ Cardinality(staying) =
                   Len(given.nodes) - 1
                   - (IF given.nodes[index].beforeComment # NoComment THEN 1 ELSE 0)
            /\ DOMAIN envAst.variables = DOMAIN given.variables \ {key}
            /\ \A other \in DOMAIN envAst.variables :
                   envAst.variables[other] = given.variables[other]
            /\ envAst.errors = given.errors
            /\ given = parseEnvAST(envContent, 0).ast

\* "# c", "A=1", "B=2": removing A leaves the node of B and the variable B
C23_Witness ==
    /\ RemovedFromParsed
    /\ envContent = JoinLines(<< <<"#", " ", "c">>, <<"A", "=", "1">>, <<"B", "=", "2">> >>,
                              <<Newline>>)
    /\ envCall.id = 2
    /\ Len(envAst.nodes) = 1
    /\ envAst.nodes[1].key = <<"B">>
    /\ envAst.variables = (<<"B">> :> <<"2">>)

(***************************************************************************)
(* C30.  After parseEnvAST and any calls of the manipulation functions the *)
(* variables of the AST agree with its nodes: the keys of variables are    *)
(* the non-empty keys of the variable nodes, each with the value of the    *)
(* last node that has the key.                                             *)
(***************************************************************************)
NodeKeys(ast) ==
    {ast.nodes[k].key :
        k \in {j \in DOMAIN ast.nodes :
                  isVariableAssignmentNode(ast.nodes[j]) /\ ast.nodes[j].key # <<>>}}

LastWithKey(ast, key) ==
    CHOOSE k \in DOMAIN ast.nodes :
        /\ isVariableAssignmentNode(ast.nodes[k]) /\ ast.nodes[k].key = key
        /\ \A j \in (k + 1)..Len(ast.nodes) :
               ~(isVariableAssignmentNode(ast.nodes[j]) /\ ast.nodes[j].key = key)

VariablesAgree(ast) ==
    /\ DOMAIN ast.variables = NodeKeys(ast)
    /\ \A key \in NodeKeys(ast) :
           ast.variables[key] = ast.nodes[LastWithKey(ast, key)].value

C30_VariablesAgreeWithNodes ==
    envAst # NotCalled => VariablesAgree(envAst)


=============================================================================
